---------------------------- MODULE Spec2Model ----------------------------
(***************************************************************************)
(* WaylandInputWindow: the pointer event-frame aggregator, the input-frame *)
(* interpreter and the frame-paced render scheduler of main().             *)
(*                                                                         *)
(* Representation of values                                                *)
(*   - a double that the program obtains from wl_fixed_to_double, and      *)
(*     every sum/difference of such doubles, is carried as the integer     *)
(*     number of 1/256 units (wl_fixed_t is signed 24.8 fixed point, the   *)
(*     conversion is exact and so is the arithmetic at these magnitudes).  *)
(*     Pixels(n) is the double n.0 in that representation.                 *)
(*   - std::optional<T> is a sequence of length 0 (empty) or 1.            *)
(*   - std::bitset<32> is the set of the indices of its set bits.          *)
(*   - pointers to wl_pointer, wl_surface, wl_callback objects are         *)
(*     positive integers, nullptr is 0.                                    *)
(***************************************************************************)
EXTENDS Integers, Sequences, FiniteSets, TLC

(***************************************************************************)
(* Bounds of the model                                                     *)
(***************************************************************************)
\* number of wl_surface::frame callbacks the run loop may request
MaxCallbacks == 3
\* |viewportOffsetX|, |viewportOffsetY| explored, in whole pixels
MaxPanPixels == 10
\* number of buttons held down at once in the button session
MaxButtonsHeld == 2
\* virtual coordinates of the chess board lie in -MaxCoordinate .. MaxCoordinate
MaxCoordinate == 61
\* appCtx.mainWindow.width and height in pixels: 800 and 600 in the source,
\* scaled down here
width == 3
height == 2

(***************************************************************************)
(* Program constants                                                       *)
(***************************************************************************)
\* <linux/input-event-codes.h> codes named by handleFrame(Button)
BTN_0 == 256
BTN_1 == 257
BTN_2 == 258
BTN_3 == 259
BTN_4 == 260
BTN_5 == 261
BTN_6 == 262
BTN_7 == 263
BTN_8 == 264
BTN_9 == 265
BTN_LEFT == 272
BTN_RIGHT == 273
BTN_MIDDLE == 274
BTN_SIDE == 275
BTN_EXTRA == 276
BTN_FORWARD == 277
BTN_BACK == 278
BTN_TASK == 279
\* a code handleFrame(Button) has no case for (BTN_JOYSTICK)
BTN_UNMAPPED == 288

\* WLAppCtx::PointingDevice enum
IDX_LMB == 0
IDX_RMB == 1
IDX_MMB == 2
IDX_OTHERS_BEGIN == 3
\* std::bitset<32>::size()
ButtonsBitsetSize == 32

\* mainWindow.bytesPerPixel (XRGB8888)
bytesPerPixel == 4
\* std::numeric_limits<std::size_t>::max(), the default extent of drawVia; it
\* stands for 2^64 - 1: an extent is only ever clamped to the surface's
\* size, so every value above the size acts alike
SIZE_MAX == 2147483647

\* renderMainWindow: the side of a cell of the chess board, px
cellSideBasicSize == 60

\* wl_pointer_button_state
WL_POINTER_BUTTON_STATE_RELEASED == 0
WL_POINTER_BUTTON_STATE_PRESSED == 1
\* wl_pointer_axis
WL_POINTER_AXIS_VERTICAL_SCROLL == 0
WL_POINTER_AXIS_HORIZONTAL_SCROLL == 1
\* wl_seat_capability
WL_SEAT_CAPABILITY_POINTER == 1
WL_SEAT_CAPABILITY_KEYBOARD == 2
WL_SEAT_CAPABILITY_TOUCH == 4

\* the factor of onAxisDiscrete
WheelStepFractions == 120

\* 1.0 as a double of the representation (wl_fixed_t has 8 fractional bits)
FixedOne == 256

Pixels(n) == n * FixedOne

\* wl_fixed_to_double: the double f / 256.0, which is f units of 1/256
WlFixedToDouble(f) == f

(***************************************************************************)
(* Identities of the protocol objects                                      *)
(***************************************************************************)
NullPtr == 0
\* the wl_surface of the main window and another surface of the compositor
MainSurface == 1
OtherSurface == 2
\* the wl_pointer wl_seat_get_pointer returns and a wl_pointer that is not it
SeatPointer == 1
ForeignPointer == 2

\* the wl_buffer objects of the two halves of the shared buffer
SurfaceWLSideBuffer1 == 1
SurfaceWLSideBuffer2 == 2

Nothing == <<>>
Some(v) == <<v>>
HasValue(opt) == opt # <<>>
ValueOf(opt) == opt[1]
\* std::optional::value_or
ValueOr(opt, dflt) == IF HasValue(opt) THEN ValueOf(opt) ELSE dflt

(***************************************************************************)
(* ContentState                                                            *)
(***************************************************************************)
\* ContentState{} : the default member initialisers
DefaultContentState ==
    [ viewportOffsetX |-> 0,
      viewportOffsetY |-> 0,
      viewportZoom |-> Pixels(1),
      viewportZoomCenterLocalX |-> 0,
      viewportZoomCenterLocalY |-> 0 ]

\* variant: a move also doubles the zoom
movedFor_Zooms(s, offsetX, offsetY) ==
    [ viewportOffsetX |-> s.viewportOffsetX + offsetX,
      viewportOffsetY |-> s.viewportOffsetY + offsetY,
      viewportZoom |-> 2 * s.viewportZoom,
      viewportZoomCenterLocalX |-> s.viewportZoomCenterLocalX,
      viewportZoomCenterLocalY |-> s.viewportZoomCenterLocalY ]

\* ContentState::movedFor
movedFor(s, offsetX, offsetY) ==
    [ viewportOffsetX |-> s.viewportOffsetX + offsetX,
      viewportOffsetY |-> s.viewportOffsetY + offsetY,
      viewportZoom |-> s.viewportZoom,
      viewportZoomCenterLocalX |-> s.viewportZoomCenterLocalX,
      viewportZoomCenterLocalY |-> s.viewportZoomCenterLocalY ]

\* operator==(const ContentState&, const ContentState&)
ContentStateEq(lhs, rhs) ==
    /\ lhs.viewportOffsetX = rhs.viewportOffsetX
    /\ lhs.viewportOffsetY = rhs.viewportOffsetY
    /\ lhs.viewportZoom = rhs.viewportZoom
    /\ lhs.viewportZoomCenterLocalX = rhs.viewportZoomCenterLocalX
    /\ lhs.viewportZoomCenterLocalY = rhs.viewportZoomCenterLocalY

(***************************************************************************)
(* State                                                                   *)
(***************************************************************************)
VARIABLES
    pc,                 \* position of main(): "loop", "dispatch", "done"
    exitCode,           \* value main() returned, -1 while running
    shouldExit,         \* appCtx.shouldExit
    mustBeRedrawn,      \* appCtx.mainWindow.mustBeRedrawn
    readyToBeRedrawn,   \* appCtx.mainWindow.readyToBeRedrawn
    pendingBufferIdx,   \* appCtx.mainWindow.pendingBufferIdx
    pendingCallback,    \* mainWindowRedrawHintListener.pendingCallback
    contentState,       \* main()'s contentState
    lastRenderedState,  \* main()'s lastRenderedState
    callbacksCreated,   \* number of wl_callback objects wl_surface_frame returned
    registered,         \* wl_callbacks with a listener whose done event is not yet delivered
    wlDevice,           \* appCtx.pointingDev.wlDevice (NullPtr: no resource)
    positionOnMainWindowSurface, \* appCtx.pointingDev.positionOnMainWindowSurface
    buttonsPressedState,         \* appCtx.pointingDev.buttonsPressedState
    eventFrame,         \* appCtx.pointingDev.eventFrame
    handled,            \* frames the last step passed to handleFrame, in order
    written,            \* byte offsets of surfaceSharedBuffer the last step wrote
    returned,           \* what the function the last step called on its own returned
    surfaceSharedBuffer, \* the bytes of appCtx.mainWindow.surfaceSharedBuffer
    surfaceBuffer,      \* the wl_buffer of the state of the main window's
                        \* wl_surface that the last wl_surface_commit applied
    requests,           \* the requests the last step made on its Wayland objects
                        \* and the rendering it did, in the order of the calls
    lastCall,           \* the last step: its name, its arguments and the
                        \* pending frame it found
    firstOfBurst,       \* the first wl_pointer event since the last
                        \* wl_pointer::frame: its name and arguments (the
                        \* arguments are kept for the frame-starting events)
    renderedImages,     \* the renderings recorded so far: for each its number,
                        \* the contentState rendered, the sub-buffer rendered
                        \* to and the pixels that sub-buffer held afterwards
    held,               \* the members of appCtx that hold a resource, but for
                        \* pointingDev.wlDevice, which is wlDevice
    released            \* the resources whose deleter has run, in the order
                        \* of the runs

\* what the pointer callbacks never touch
loopVars == << pc, exitCode, shouldExit, readyToBeRedrawn, pendingBufferIdx,
               pendingCallback, lastRenderedState, callbacksCreated, registered >>
pointerVars == << wlDevice, positionOnMainWindowSurface, buttonsPressedState,
                  eventFrame >>
vars == << pc, exitCode, shouldExit, mustBeRedrawn, readyToBeRedrawn,
           pendingBufferIdx, pendingCallback, contentState, lastRenderedState,
           callbacksCreated, registered, wlDevice, positionOnMainWindowSurface,
           buttonsPressedState, eventFrame, handled, written, returned,
           surfaceSharedBuffer, surfaceBuffer, requests, lastCall,
           firstOfBurst, renderedImages, held, released >>

(***************************************************************************)
(* The resources of appCtx                                                 *)
(***************************************************************************)
\* the members of WLAppCtx that main() fills before the loop, in the order
\* of Steps 1 to 6
StartupOrder ==
    << "connection", "registry", "compositor", "shmProvider",
       "surfaceSharedBuffer", "surfaceBufferWLPool", "surfaceWLSideBuffer1",
       "surfaceWLSideBuffer2", "surface", "xdgShell", "xdgSurface",
       "xdgToplevel", "inputDevicesManager" >>
StartupResources == { StartupOrder[i] : i \in DOMAIN StartupOrder }

\* the body of WLAppCtx::~WLAppCtx: its calls of reset() and dispose()
DestructorOrder ==
    << "touchScreen.wlDevice", "pointingDev.wlDevice", "keyboard.wlDevice",
       "xdgToplevel", "xdgSurface", "surface", "surfaceWLSideBuffer2",
       "surfaceWLSideBuffer1", "surfaceBufferWLPool", "surfaceSharedBuffer",
       "inputDevicesManager", "xdgShell", "shmProvider", "compositor",
       "registry", "connection" >>
\* the members' own destructors, which run after that body in the reverse
\* order of the declarations and each call reset() or dispose() again
MemberDestructionOrder ==
    << "touchScreen.wlDevice", "pointingDev.wlDevice", "keyboard.wlDevice",
       "xdgToplevel", "xdgSurface", "surface", "surfaceWLSideBuffer2",
       "surfaceWLSideBuffer1", "surfaceBufferWLPool", "surfaceSharedBuffer",
       "inputDevicesManager", "xdgShell", "shmProvider", "compositor",
       "registry", "connection" >>

RECURSIVE ResetEach(_, _)

\* variant: reset() runs the deleter and leaves the wrapper holding the
\* resource
reset_KeepsResource(wrappers, resource) ==
    IF resource \in wrappers.held
      THEN [ held |-> wrappers.held,
             released |-> Append(wrappers.released, resource) ]
      ELSE wrappers

\* WLResourceWrapper::reset (and SharedMemoryBuffer::dispose) of the member
\* resource: the deleter runs if the member holds a resource, which it no
\* longer does afterwards
reset(wrappers, resource) ==
    IF resource \in wrappers.held
      THEN [ held |-> wrappers.held \ {resource},
             released |-> Append(wrappers.released, resource) ]
      ELSE wrappers

\* reset() of each member named in order, first to last
ResetEach(wrappers, order) ==
    IF order = <<>> THEN wrappers
    ELSE ResetEach(reset(wrappers, Head(order)), Tail(order))

\* appCtx leaves its scope: ~WLAppCtx, then the destructors of the members
DestroyAppCtx ==
    LET holding == [ held |-> held \cup (IF wlDevice # NullPtr
                                           THEN {"pointingDev.wlDevice"} ELSE {}),
                     released |-> released ]
        destroyed == ResetEach(holding, DestructorOrder \o MemberDestructionOrder)
    IN  /\ held' = destroyed.held
        /\ released' = destroyed.released
        /\ wlDevice' = NullPtr

\* variant: Step 4 leaves mustBeRedrawn at its default
Init_NoInitialDamage ==
    /\ pc = "loop"
    /\ exitCode = -1
    /\ shouldExit = FALSE
    /\ mustBeRedrawn = FALSE
    /\ readyToBeRedrawn = TRUE
    /\ pendingBufferIdx = 0
    /\ pendingCallback = NullPtr
    /\ contentState = DefaultContentState
    /\ lastRenderedState = DefaultContentState
    /\ callbacksCreated = 0
    /\ registered = {}
    /\ wlDevice = NullPtr
    /\ positionOnMainWindowSurface = Nothing
    /\ buttonsPressedState = {}
    /\ eventFrame = Nothing
    /\ handled = <<>>
    /\ written = {}
    /\ returned = Nothing
    /\ requests = <<>>
    /\ surfaceSharedBuffer = [ offset \in 0 .. 2 * width * bytesPerPixel * height - 1 |-> 0 ]
    /\ surfaceBuffer = NullPtr
    /\ lastCall = [op |-> "main", args |-> <<>>, pending |-> Nothing,
                   position |-> Nothing, buttons |-> {}]
    /\ firstOfBurst = Nothing
    /\ renderedImages = {}
    /\ held = StartupResources
    /\ released = <<>>

\* main() up to the event loop: Step 4 sets both redraw flags, the listener
\* object starts with no callback, the loop's prologue sets the buffer index
\* and copies contentState
Init ==
    /\ pc = "loop"
    /\ exitCode = -1
    /\ shouldExit = FALSE
    /\ mustBeRedrawn = TRUE
    /\ readyToBeRedrawn = TRUE
    /\ pendingBufferIdx = 0
    /\ pendingCallback = NullPtr
    /\ contentState = DefaultContentState
    /\ lastRenderedState = DefaultContentState
    /\ callbacksCreated = 0
    /\ registered = {}
    /\ wlDevice = NullPtr
    /\ positionOnMainWindowSurface = Nothing
    /\ buttonsPressedState = {}
    /\ eventFrame = Nothing
    /\ handled = <<>>
    /\ written = {}
    /\ returned = Nothing
    /\ requests = <<>>
    /\ surfaceSharedBuffer = [ offset \in 0 .. 2 * width * bytesPerPixel * height - 1 |-> 0 ]
    /\ surfaceBuffer = NullPtr
    /\ lastCall = [op |-> "main", args |-> <<>>, pending |-> Nothing,
                   position |-> Nothing, buttons |-> {}]
    /\ firstOfBurst = Nothing
    /\ renderedImages = {}
    /\ held = StartupResources
    /\ released = <<>>

(***************************************************************************)
(* main() before the event loop                                            *)
(***************************************************************************)
\* appCtx and contentState as the head of main() constructs them
InitMain ==
    /\ pc = "start"
    /\ exitCode = -1
    /\ shouldExit = FALSE
    /\ mustBeRedrawn = FALSE
    /\ readyToBeRedrawn = FALSE
    /\ pendingBufferIdx = 0
    /\ pendingCallback = NullPtr
    /\ contentState = DefaultContentState
    /\ lastRenderedState = DefaultContentState
    /\ callbacksCreated = 0
    /\ registered = {}
    /\ wlDevice = NullPtr
    /\ positionOnMainWindowSurface = Nothing
    /\ buttonsPressedState = {}
    /\ eventFrame = Nothing
    /\ handled = <<>>
    /\ written = {}
    /\ returned = Nothing
    /\ requests = <<>>
    /\ surfaceSharedBuffer = [ offset \in 0 .. 2 * width * bytesPerPixel * height - 1 |-> 0 ]
    /\ surfaceBuffer = NullPtr
    /\ lastCall = [op |-> "main", args |-> <<>>, pending |-> Nothing,
                   position |-> Nothing, buttons |-> {}]
    /\ firstOfBurst = Nothing
    /\ renderedImages = {}
    /\ held = {}
    /\ released = <<>>

\* the catch handlers of main(), tried in their order: std::system_error,
\* std::exception (the base of std::runtime_error, std::logic_error and
\* std::bad_alloc), then everything else
CatchHandlerReturns(exception) ==
    IF exception = "std::system_error" THEN 1
    ELSE IF exception \in { "std::runtime_error", "std::logic_error",
                            "std::bad_alloc", "std::exception" } THEN 2
    ELSE 3

\* the ways main() ends, and the value it returns for each: the two return
\* statements of the start-up, the exception thrown when no wl_seat is found,
\* an exception of each group of catch handlers, and the end of the loop
Outcomes ==
    { "no wl_compositor", "no wl_shm", "no wl_seat", "std::system_error",
      "std::exception", "unknown exception", "normal exit" }
ExitCodeOfOutcome(outcome) ==
    CASE outcome = "no wl_compositor" -> 4
      [] outcome = "no wl_shm" -> 5
      [] outcome = "no wl_seat" -> CatchHandlerReturns("std::runtime_error")
      [] outcome = "std::system_error" -> CatchHandlerReturns("std::system_error")
      [] outcome = "std::exception" -> CatchHandlerReturns("std::exception")
      [] outcome = "unknown exception" -> CatchHandlerReturns("unknown exception")
      [] outcome = "normal exit" -> 0

\* Steps 1 to N of main() end it: a global is missing or an exception leaves
\* the try block, and appCtx is destroyed on the way out
StartupFails(outcome) ==
    /\ pc = "start"
    /\ outcome # "normal exit"
    /\ pc' = "done"
    /\ exitCode' = ExitCodeOfOutcome(outcome)
    /\ handled' = <<>>
    /\ written' = {}
    /\ returned' = Nothing
    /\ DestroyAppCtx
    /\ requests' = <<>>
    /\ UNCHANGED << surfaceSharedBuffer, surfaceBuffer >>
    /\ UNCHANGED << shouldExit, mustBeRedrawn, readyToBeRedrawn, pendingBufferIdx,
                    pendingCallback, contentState, lastRenderedState,
                    callbacksCreated, registered,
                    positionOnMainWindowSurface, buttonsPressedState, eventFrame >>

\* Steps 1 to N of main() succeed: Steps 1 to 6 fill the members of appCtx,
\* Step 4 sets both redraw flags, the loop's prologue sets the buffer index
\* and copies contentState
StartupSucceeds ==
    /\ pc = "start"
    /\ pc' = "loop"
    /\ mustBeRedrawn' = TRUE
    /\ readyToBeRedrawn' = TRUE
    /\ pendingBufferIdx' = 0
    /\ lastRenderedState' = contentState
    /\ handled' = <<>>
    /\ written' = {}
    /\ returned' = Nothing
    /\ held' = StartupResources
    /\ UNCHANGED released
    /\ requests' = <<>>
    /\ UNCHANGED << surfaceSharedBuffer, surfaceBuffer >>
    /\ UNCHANGED << exitCode, shouldExit, pendingCallback, contentState,
                    callbacksCreated, registered, wlDevice,
                    positionOnMainWindowSurface, buttonsPressedState, eventFrame >>

\* how the acquisition of a member of appCtx in Steps 1 to 6 can go: the call
\* returns the resource or a null pointer; a global is looked up in the list
\* of the announced ones first; SharedMemoryBuffer::allocate throws
AcquisitionResults(resource) ==
    IF resource \in { "compositor", "shmProvider", "xdgShell", "inputDevicesManager" }
      THEN { "acquired", "null", "no global" }
    ELSE IF resource = "surfaceSharedBuffer"
      THEN { "acquired", "std::system_error", "std::runtime_error" }
    ELSE { "acquired", "null" }

\* the way main() ends when the acquisition of resource has gone wrong: a
\* null pointer makes main() throw std::system_error; without a
\* wl_compositor or a wl_shm main() returns; without a wl_seat it throws
\* std::runtime_error; without an xdg_wm_base nothing is checked, and the
\* next statement's *appCtx.xdgShell throws std::bad_optional_access
OutcomeOfFailure(resource, result) ==
    IF result = "no global"
      THEN CASE resource = "compositor" -> "no wl_compositor"
             [] resource = "shmProvider" -> "no wl_shm"
             [] resource = "xdgShell" -> "std::exception"
             [] resource = "inputDevicesManager" -> "no wl_seat"
    ELSE IF result = "std::runtime_error" THEN "std::exception"
    ELSE "std::system_error"

\* variant: a failed acquisition leaves its member empty and main() goes on
\* to the next statement
Acquire_GoesOn(resource, result) ==
    /\ pc = "start"
    /\ Cardinality(held) < Len(StartupOrder)
    /\ resource = StartupOrder[Cardinality(held) + 1]
    /\ result \in AcquisitionResults(resource)
    /\ held' = held \cup {resource}
    /\ UNCHANGED << pc, exitCode, released, wlDevice >>
    /\ IF resource = "surface"
         THEN mustBeRedrawn' = TRUE /\ readyToBeRedrawn' = TRUE
         ELSE UNCHANGED << mustBeRedrawn, readyToBeRedrawn >>
    /\ handled' = <<>>
    /\ written' = {}
    /\ returned' = Nothing
    /\ requests' = <<>>
    /\ UNCHANGED << surfaceSharedBuffer, surfaceBuffer >>
    /\ UNCHANGED << shouldExit, pendingBufferIdx, pendingCallback, contentState,
                    lastRenderedState, callbacksCreated, registered,
                    positionOnMainWindowSurface, buttonsPressedState, eventFrame >>

\* one of Steps 1 to 6 of main(): the next member of appCtx is filled, or
\* main() ends as OutcomeOfFailure says and appCtx is destroyed on the way
\* out; Step 4 sets both redraw flags once the surface exists
Acquire(resource, result) ==
    /\ pc = "start"
    /\ Cardinality(held) < Len(StartupOrder)
    /\ resource = StartupOrder[Cardinality(held) + 1]
    /\ result \in AcquisitionResults(resource)
    /\ IF result = "acquired"
         THEN /\ held' = held \cup {resource}
              /\ UNCHANGED << pc, exitCode, released, wlDevice >>
              /\ IF resource = "surface"
                   THEN mustBeRedrawn' = TRUE /\ readyToBeRedrawn' = TRUE
                   ELSE UNCHANGED << mustBeRedrawn, readyToBeRedrawn >>
         ELSE /\ pc' = "done"
              /\ exitCode' = ExitCodeOfOutcome(OutcomeOfFailure(resource, result))
              /\ DestroyAppCtx
              /\ UNCHANGED << mustBeRedrawn, readyToBeRedrawn >>
    /\ handled' = <<>>
    /\ written' = {}
    /\ returned' = Nothing
    /\ requests' = <<>>
    /\ UNCHANGED << surfaceSharedBuffer, surfaceBuffer >>
    /\ UNCHANGED << shouldExit, pendingBufferIdx, pendingCallback, contentState,
                    lastRenderedState, callbacksCreated, registered,
                    positionOnMainWindowSurface, buttonsPressedState, eventFrame >>

\* Steps 7 to N of main() and the loop's prologue, once Steps 1 to 6 have
\* filled appCtx
RestOfStartup ==
    /\ held = StartupResources
    /\ StartupSucceeds

\* variant: every field is back at its default
restoredZoom_Default(s) == DefaultContentState

\* ContentState::restoredZoom, which ContentState declares: the state with
\* viewportZoom back at 1.0 and the other fields of s
restoredZoom(s) == [ s EXCEPT !.viewportZoom = Pixels(1) ]

(***************************************************************************)
(* ContentState on doubles of any magnitude                                *)
(*                                                                         *)
(* The integers above carry the doubles the program computes from pointer  *)
(* events exactly.  A double as such has a 53-bit significand: here it is  *)
(* the record [hi, lo] of the value hi * DoubleLimb + lo in units of       *)
(* 1/256, lo in 0 .. DoubleLimb - 1, hi of either sign, and operator+      *)
(* rounds as IEEE 754 binary64 does (to nearest, ties to even).            *)
(***************************************************************************)
\* 2^27: half of the bits of a value of magnitude up to 2^54
DoubleLimb == 134217728

\* the double of the integer n of the representation above
ToDouble(n) == [ hi |-> n \div DoubleLimb, lo |-> n % DoubleLimb ]

\* the distance of neighbouring doubles at hi * DoubleLimb + lo: 1 below
\* 2^53, 2 from 2^53 to 2^54, 4 from 2^54 to 2^55
DoubleSpacing(hi) ==
    IF hi >= DoubleLimb \/ hi < -DoubleLimb THEN 4
    ELSE IF hi >= DoubleLimb \div 2 \/ hi < -(DoubleLimb \div 2) THEN 2
    ELSE 1

\* the double nearest to hi * DoubleLimb + lo, of two equally near ones the
\* one with the even significand
DoubleRound(hi, lo) ==
    LET spacing == DoubleSpacing(hi)
        below == lo - (lo % spacing)
        above == below + spacing
        nearest == IF 2 * (lo % spacing) < spacing THEN below
                   ELSE IF 2 * (lo % spacing) > spacing THEN above
                   ELSE IF below % (2 * spacing) = 0 THEN below
                   ELSE above
    IN  [ hi |-> hi + nearest \div DoubleLimb, lo |-> nearest % DoubleLimb ]

\* operator+ of two doubles whose sum has a magnitude below 2^55
DoubleAdd(x, y) ==
    DoubleRound(x.hi + y.hi + (x.lo + y.lo) \div DoubleLimb,
                (x.lo + y.lo) % DoubleLimb)

\* variant: the offsets are replaced, not added to
movedForDouble_Replaces(s, offsetX, offsetY) ==
    [ viewportOffsetX |-> offsetX,
      viewportOffsetY |-> offsetY,
      viewportZoom |-> s.viewportZoom,
      viewportZoomCenterLocalX |-> s.viewportZoomCenterLocalX,
      viewportZoomCenterLocalY |-> s.viewportZoomCenterLocalY ]

\* ContentState::movedFor of a state and offsets that are doubles as such
movedForDouble(s, offsetX, offsetY) ==
    [ viewportOffsetX |-> DoubleAdd(s.viewportOffsetX, offsetX),
      viewportOffsetY |-> DoubleAdd(s.viewportOffsetY, offsetY),
      viewportZoom |-> s.viewportZoom,
      viewportZoomCenterLocalX |-> s.viewportZoomCenterLocalX,
      viewportZoomCenterLocalY |-> s.viewportZoomCenterLocalY ]

(***************************************************************************)
(* The main window's pixel buffer                                          *)
(***************************************************************************)
\* std::clamp
Clamp(v, lo, hi) == IF v < lo THEN lo ELSE IF hi < v THEN hi ELSE v

\* mainWindow::getSurfaceBufferOffsetForIdx
getSurfaceBufferOffsetForIdx(idx) == idx * width * bytesPerPixel * height

\* variant: the extents are clamped to the surface's size, not to what is
\* left of it behind the rectangle's origin
DrawViaWrites_ClampsToSize(rectX, rectY, rectWidth, rectHeight) ==
    IF rectX >= 0 + width \/ rectY >= 0 + height
      THEN {}
      ELSE LET clampedWidth == Clamp(rectWidth, 0, 0 + width)
               clampedHeight == Clamp(rectHeight, 0, 0 + height)
               rectXMax == rectX + clampedWidth
               rectYMax == rectY + clampedHeight
               bufferToWriteOffset == getSurfaceBufferOffsetForIdx(pendingBufferIdx)
           IN  { bufferToWriteOffset + y * width * bytesPerPixel + x * bytesPerPixel + k :
                   y \in rectY .. rectYMax - 1, x \in rectX .. rectXMax - 1,
                   k \in 0 .. bytesPerPixel - 1 }

\* mainWindow::drawVia: the offsets of the bytes b, g, r, a its two loops
\* reach.  No sum or product of the body can leave the range of std::size_t:
\* the origin is below the size when the extents are clamped, and the clamped
\* extents end at the size
DrawViaWrites(rectX, rectY, rectWidth, rectHeight) ==
    IF rectX >= 0 + width \/ rectY >= 0 + height
      THEN {}
      ELSE LET clampedWidth == Clamp(rectWidth, 0, 0 + width - rectX)
               clampedHeight == Clamp(rectHeight, 0, 0 + height - rectY)
               rectXMax == rectX + clampedWidth
               rectYMax == rectY + clampedHeight
               bufferToWriteOffset == getSurfaceBufferOffsetForIdx(pendingBufferIdx)
           IN  { bufferToWriteOffset + y * width * bytesPerPixel + x * bytesPerPixel + k :
                   y \in rectY .. rectYMax - 1, x \in rectX .. rectXMax - 1,
                   k \in 0 .. bytesPerPixel - 1 }

(***************************************************************************)
(* renderMainWindow: the chess board                                       *)
(***************************************************************************)
\* a function called on its own returns value and touches nothing of the
\* program
Returns(value) ==
    /\ returned' = Some(value)
    /\ UNCHANGED << held, released >>
    /\ requests' = <<>>
    /\ UNCHANGED << surfaceSharedBuffer, surfaceBuffer >>
    /\ written' = {}
    /\ handled' = <<>>
    /\ UNCHANGED << pc, exitCode, shouldExit, mustBeRedrawn, readyToBeRedrawn,
                    pendingBufferIdx, pendingCallback, contentState,
                    lastRenderedState, callbacksCreated, registered, wlDevice,
                    positionOnMainWindowSurface, buttonsPressedState, eventFrame >>

\* srcCellColumn (and srcRowColumn, the same expression of srcYGlobal) of
\* the lambda renderMainWindow draws with; the operands of both divisions are
\* non-negative std::int64_t, where / of C++ and \div agree
srcCellColumn(srcXGlobal) ==
    IF srcXGlobal > 0
      THEN srcXGlobal \div cellSideBasicSize
      ELSE -(1 + ((-srcXGlobal) \div cellSideBasicSize))

\* the % of C++ on int operands, whose result has the sign of the dividend
CppRemainder(a, b) ==
    IF a >= 0 THEN a % b ELSE -((-a) % b)

\* std::round of a double: the nearest whole number of pixels, halves away
\* from zero
StdRound(d) ==
    IF d >= 0 THEN (d + FixedOne \div 2) \div FixedOne
              ELSE -((-d + FixedOne \div 2) \div FixedOne)

\* std::round(n / zoom) for an int n and a double zoom > 0.  The quotient of
\* the doubles is within one unit in the last place of n / zoom, which is
\* either a half-integer exactly or farther from one than that
RoundedQuotient(n, zoom) ==
    IF n >= 0 THEN (2 * n * FixedOne + zoom) \div (2 * zoom)
              ELSE -((2 * (-n) * FixedOne + zoom) \div (2 * zoom))

\* std::sqrt of a double whose root is a double of the representation: the
\* square of a multiple of 1/16, as the zoom 1.0 of the program is
StdSqrt(d) ==
    (FixedOne \div 16) * (CHOOSE root \in 0 .. d : root * root = d)

\* what renderMainWindow computes before it draws and its lambda captures
RenderCaptures(s) ==
    LET viewportOffsetXRound == StdRound(s.viewportOffsetX)
        xOffsetDiff == Pixels(viewportOffsetXRound) - s.viewportOffsetX
        viewportOffsetYRound == StdRound(s.viewportOffsetY)
        yOffsetDiff == Pixels(viewportOffsetYRound) - s.viewportOffsetY
    IN  [ viewportOffsetXRound |-> viewportOffsetXRound,
          viewportOffsetYRound |-> viewportOffsetYRound,
          zoom |-> StdSqrt(s.viewportZoom),
          zoomCenterLocalX |->
              Clamp(StdRound(s.viewportZoomCenterLocalX + xOffsetDiff), 0, width - 1),
          zoomCenterLocalY |->
              Clamp(StdRound(s.viewportZoomCenterLocalY + yOffsetDiff), 0, height - 1) ]

\* variant: a cell is odd when the remainder of its index is 1, which the
\* remainder of a negative index never is
ChessBoardVisitor_OddIsRemainderOne(captures, x, y) ==
    LET xRelZoomCenter == x - captures.zoomCenterLocalX
        srcXRelZoomCenter == RoundedQuotient(xRelZoomCenter, captures.zoom)
        srcXGlobal == captures.viewportOffsetXRound + captures.zoomCenterLocalX
                        + srcXRelZoomCenter
        yRelZoomCenter == y - captures.zoomCenterLocalY
        srcYRelZoomCenter == RoundedQuotient(yRelZoomCenter, captures.zoom)
        srcYGlobal == captures.viewportOffsetYRound + captures.zoomCenterLocalY
                        + srcYRelZoomCenter
        columnIsEven == CppRemainder(srcCellColumn(srcXGlobal), 2) # 1
        rowIsEven == CppRemainder(srcCellColumn(srcYGlobal), 2) # 1
    IN  IF columnIsEven = rowIsEven
          THEN << 0, 0, 0 >>
          ELSE << 192, 192, 192 >>

\* the lambda of renderMainWindow at the pixel (x, y): the bytes it leaves in
\* b, g, r
ChessBoardVisitor(captures, x, y) ==
    LET xRelZoomCenter == x - captures.zoomCenterLocalX
        srcXRelZoomCenter == RoundedQuotient(xRelZoomCenter, captures.zoom)
        srcXGlobal == captures.viewportOffsetXRound + captures.zoomCenterLocalX
                        + srcXRelZoomCenter
        yRelZoomCenter == y - captures.zoomCenterLocalY
        srcYRelZoomCenter == RoundedQuotient(yRelZoomCenter, captures.zoom)
        srcYGlobal == captures.viewportOffsetYRound + captures.zoomCenterLocalY
                        + srcYRelZoomCenter
        columnIsEven == CppRemainder(srcCellColumn(srcXGlobal), 2) = 0
        rowIsEven == CppRemainder(srcCellColumn(srcYGlobal), 2) = 0
    IN  IF columnIsEven = rowIsEven
          THEN << 0, 0, 0 >>          \* 0x00: pure black
          ELSE << 192, 192, 192 >>    \* 0xC0: silver

\* variant: a black colour byte is not stored, as if the buffer were known
\* to hold zeros
DrawViaBuffer_SkipsBlack(captures, rectX, rectY, rectWidth, rectHeight) ==
    LET bufferToWriteOffset == getSurfaceBufferOffsetForIdx(pendingBufferIdx)
        reached == DrawViaWrites(rectX, rectY, rectWidth, rectHeight)
    IN  [ offset \in DOMAIN surfaceSharedBuffer |->
            IF offset \notin reached
              THEN surfaceSharedBuffer[offset]
              ELSE LET inBuffer == offset - bufferToWriteOffset
                       y == inBuffer \div (width * bytesPerPixel)
                       x == (inBuffer % (width * bytesPerPixel)) \div bytesPerPixel
                       byte == inBuffer % bytesPerPixel
                   IN  IF byte = 3 THEN 255
                       ELSE IF ChessBoardVisitor(captures, x, y)[byte + 1] = 0
                              THEN surfaceSharedBuffer[offset]
                              ELSE ChessBoardVisitor(captures, x, y)[byte + 1] ]

\* the cell of the board the lambda finds for the pixel (x, y): its column
\* and its row
SrcCell(captures, x, y) ==
    LET xRelZoomCenter == x - captures.zoomCenterLocalX
        srcXRelZoomCenter == RoundedQuotient(xRelZoomCenter, captures.zoom)
        srcXGlobal == captures.viewportOffsetXRound + captures.zoomCenterLocalX
                        + srcXRelZoomCenter
        yRelZoomCenter == y - captures.zoomCenterLocalY
        srcYRelZoomCenter == RoundedQuotient(yRelZoomCenter, captures.zoom)
        srcYGlobal == captures.viewportOffsetYRound + captures.zoomCenterLocalY
                        + srcYRelZoomCenter
    IN  [ column |-> srcCellColumn(srcXGlobal), row |-> srcCellColumn(srcYGlobal) ]

\* mainWindow::drawVia with that lambda: surfaceSharedBuffer after its two
\* loops.  The pixel whose bytes lie at an offset the loops reach is the one
\* the offset is computed from: rows are width * bytesPerPixel bytes apart
\* and pixels bytesPerPixel; its fourth byte is set to 0xFF
DrawViaBuffer(captures, rectX, rectY, rectWidth, rectHeight) ==
    LET bufferToWriteOffset == getSurfaceBufferOffsetForIdx(pendingBufferIdx)
        reached == DrawViaWrites(rectX, rectY, rectWidth, rectHeight)
    IN  [ offset \in DOMAIN surfaceSharedBuffer |->
            IF offset \notin reached
              THEN surfaceSharedBuffer[offset]
              ELSE LET inBuffer == offset - bufferToWriteOffset
                       y == inBuffer \div (width * bytesPerPixel)
                       x == (inBuffer % (width * bytesPerPixel)) \div bytesPerPixel
                       byte == inBuffer % bytesPerPixel
                   IN  IF byte = 3 THEN 255
                       ELSE ChessBoardVisitor(captures, x, y)[byte + 1] ]

\* mainWindow::drawVia called on its own with a rectangle and the lambda
\* renderMainWindow would pass for the current contentState
drawVia(rectX, rectY, rectWidth, rectHeight) ==
    /\ pc # "done"
    /\ written' = DrawViaWrites(rectX, rectY, rectWidth, rectHeight)
    /\ returned' = Nothing
    /\ UNCHANGED << held, released >>
    /\ requests' = <<>>
    /\ surfaceSharedBuffer' = DrawViaBuffer(RenderCaptures(contentState),
                                            rectX, rectY, rectWidth, rectHeight)
    /\ UNCHANGED surfaceBuffer
    /\ handled' = <<>>
    /\ UNCHANGED << pc, exitCode, shouldExit, mustBeRedrawn, readyToBeRedrawn,
                    pendingBufferIdx, pendingCallback, contentState,
                    lastRenderedState, callbacksCreated, registered, wlDevice,
                    positionOnMainWindowSurface, buttonsPressedState, eventFrame >>

\* renderMainWindow: surfaceSharedBuffer after it
renderMainWindow(s) ==
    DrawViaBuffer(RenderCaptures(s), 0, 0, SIZE_MAX, SIZE_MAX)

\* mainWindow::getPendingWLSideBuffer
getPendingWLSideBuffer ==
    IF pendingBufferIdx = 0 THEN SurfaceWLSideBuffer1 ELSE SurfaceWLSideBuffer2

\* the offset in the pool given to wl_shm_pool_create_buffer for each wl_buffer
SideBufferOffset(buffer) ==
    IF buffer = SurfaceWLSideBuffer1 THEN getSurfaceBufferOffsetForIdx(0)
                                     ELSE getSurfaceBufferOffsetForIdx(1)

\* variant: the frame callback is asked for after the commit, so that it
\* belongs to the next one
RenderBlockRequests_FrameAfterCommit ==
    << [ request |-> "renderMainWindow",
         args |-> << getSurfaceBufferOffsetForIdx(pendingBufferIdx), contentState >> ],
       [ request |-> "wl_surface_attach", args |-> << getPendingWLSideBuffer, 0, 0 >> ],
       [ request |-> "wl_surface_damage_buffer", args |-> << 0, 0, width, height >> ],
       [ request |-> "wl_surface_commit", args |-> << >> ],
       [ request |-> "wl_surface_frame", args |-> << >> ],
       [ request |-> "wl_callback_add_listener", args |-> << callbacksCreated + 1 >> ] >>

\* variant: the surface is committed before the buffer is attached
RenderBlockRequests_CommitsFirst ==
    << [ request |-> "wl_surface_frame", args |-> << >> ],
       [ request |-> "wl_callback_add_listener", args |-> << callbacksCreated + 1 >> ],
       [ request |-> "renderMainWindow",
         args |-> << getSurfaceBufferOffsetForIdx(pendingBufferIdx), contentState >> ],
       [ request |-> "wl_surface_commit", args |-> << >> ],
       [ request |-> "wl_surface_attach", args |-> << getPendingWLSideBuffer, 0, 0 >> ],
       [ request |-> "wl_surface_damage_buffer", args |-> << 0, 0, width, height >> ] >>

\* the calls of the body of the loop's if statement on the wl_surface and on
\* the pixel buffer, in the order of the statements, each with its arguments
\* as they are evaluated at the call
RenderBlockRequests ==
    << [ request |-> "wl_surface_frame", args |-> << >> ],
       [ request |-> "wl_callback_add_listener", args |-> << callbacksCreated + 1 >> ],
       [ request |-> "renderMainWindow",
         args |-> << getSurfaceBufferOffsetForIdx(pendingBufferIdx), contentState >> ],
       [ request |-> "wl_surface_attach", args |-> << getPendingWLSideBuffer, 0, 0 >> ],
       [ request |-> "wl_surface_damage_buffer", args |-> << 0, 0, width, height >> ],
       [ request |-> "wl_surface_commit", args |-> << >> ] >>

(***************************************************************************)
(* The event loop of main()                                                *)
(***************************************************************************)
\* variant: the readiness gate is not consulted
RedrawCondition_IgnoresGate ==
    mustBeRedrawn \/ ~ContentStateEq(contentState, lastRenderedState)

\* the condition of the if statement at the head of the loop body
RedrawCondition ==
    /\ (mustBeRedrawn \/ ~ContentStateEq(contentState, lastRenderedState))
    /\ readyToBeRedrawn

\* while (!appCtx.shouldExit) fails: the try block ends, appCtx is destroyed,
\* main returns 0
LoopExit ==
    /\ pc = "loop"
    /\ shouldExit
    /\ pc' = "done"
    /\ exitCode' = 0
    /\ handled' = <<>>
    /\ UNCHANGED << shouldExit, mustBeRedrawn, readyToBeRedrawn, pendingBufferIdx,
                    pendingCallback, contentState, lastRenderedState,
                    callbacksCreated, registered >>
    /\ UNCHANGED << positionOnMainWindowSurface, buttonsPressedState, eventFrame >>
    /\ written' = {}
    /\ returned' = Nothing
    /\ DestroyAppCtx
    /\ requests' = <<>>
    /\ UNCHANGED << surfaceSharedBuffer, surfaceBuffer >>

\* variant: the explicit request for re-rendering survives the submission
LoopRender_KeepsDamage ==
    /\ pc = "loop"
    /\ ~shouldExit
    /\ RedrawCondition
    /\ callbacksCreated < MaxCallbacks
    /\ mustBeRedrawn' = mustBeRedrawn
    /\ readyToBeRedrawn' = FALSE
    /\ callbacksCreated' = callbacksCreated + 1
    /\ pendingCallback' = callbacksCreated + 1
    /\ registered' = registered \cup {callbacksCreated + 1}
    /\ pendingBufferIdx' = (pendingBufferIdx + 1) % 2
    /\ lastRenderedState' = contentState
    /\ pc' = "dispatch"
    /\ handled' = <<>>
    /\ UNCHANGED << exitCode, shouldExit, contentState >>
    /\ UNCHANGED pointerVars
    /\ written' = DrawViaWrites(0, 0, SIZE_MAX, SIZE_MAX)
    /\ returned' = Nothing
    /\ UNCHANGED << held, released >>
    /\ requests' = RenderBlockRequests
    /\ surfaceSharedBuffer' = renderMainWindow(contentState)
    /\ surfaceBuffer' = getPendingWLSideBuffer

\* variant: the buffer index stays as it is
LoopRender_NoToggle ==
    /\ pc = "loop"
    /\ ~shouldExit
    /\ RedrawCondition
    /\ callbacksCreated < MaxCallbacks
    /\ mustBeRedrawn' = FALSE
    /\ readyToBeRedrawn' = FALSE
    /\ callbacksCreated' = callbacksCreated + 1
    /\ pendingCallback' = callbacksCreated + 1
    /\ registered' = registered \cup {callbacksCreated + 1}
    /\ pendingBufferIdx' = pendingBufferIdx
    /\ lastRenderedState' = contentState
    /\ pc' = "dispatch"
    /\ handled' = <<>>
    /\ UNCHANGED << exitCode, shouldExit, contentState >>
    /\ UNCHANGED pointerVars
    /\ written' = DrawViaWrites(0, 0, SIZE_MAX, SIZE_MAX)
    /\ returned' = Nothing
    /\ UNCHANGED << held, released >>
    /\ requests' = RenderBlockRequests
    /\ surfaceSharedBuffer' = renderMainWindow(contentState)
    /\ surfaceBuffer' = getPendingWLSideBuffer

\* one iteration whose if statement is taken: request the frame callback,
\* render, attach, damage, commit, toggle the buffer index, record the state;
\* then the loop enters wl_display_dispatch
LoopRender ==
    /\ pc = "loop"
    /\ ~shouldExit
    /\ RedrawCondition
    /\ callbacksCreated < MaxCallbacks
    /\ mustBeRedrawn' = FALSE
    /\ readyToBeRedrawn' = FALSE
    /\ callbacksCreated' = callbacksCreated + 1
    /\ pendingCallback' = callbacksCreated + 1
    /\ registered' = registered \cup {callbacksCreated + 1}
    /\ pendingBufferIdx' = (pendingBufferIdx + 1) % 2
    /\ lastRenderedState' = contentState
    /\ pc' = "dispatch"
    /\ handled' = <<>>
    /\ UNCHANGED << exitCode, shouldExit, contentState >>
    /\ UNCHANGED pointerVars
    /\ written' = DrawViaWrites(0, 0, SIZE_MAX, SIZE_MAX)
    /\ returned' = Nothing
    /\ UNCHANGED << held, released >>
    /\ requests' = RenderBlockRequests
    /\ surfaceSharedBuffer' = renderMainWindow(contentState)
    /\ surfaceBuffer' = getPendingWLSideBuffer

\* one iteration whose if statement is taken and whose registration of the
\* frame callback fails: wl_surface_frame returns a null pointer, or
\* wl_callback_add_listener an error; main() throws std::system_error, which
\* ends the loop, and appCtx is destroyed on the way out
LoopRenderFails(failing) ==
    /\ pc = "loop"
    /\ ~shouldExit
    /\ RedrawCondition
    /\ callbacksCreated < MaxCallbacks
    /\ failing \in { "wl_surface_frame", "wl_callback_add_listener" }
    /\ mustBeRedrawn' = FALSE
    /\ readyToBeRedrawn' = FALSE
    /\ IF failing = "wl_surface_frame"
         THEN /\ pendingCallback' = NullPtr
              /\ UNCHANGED callbacksCreated
              /\ requests' = SubSeq(RenderBlockRequests, 1, 1)
         ELSE /\ pendingCallback' = callbacksCreated + 1
              /\ callbacksCreated' = callbacksCreated + 1
              /\ requests' = SubSeq(RenderBlockRequests, 1, 2)
    /\ pc' = "done"
    /\ exitCode' = CatchHandlerReturns("std::system_error")
    /\ DestroyAppCtx
    /\ handled' = <<>>
    /\ written' = {}
    /\ returned' = Nothing
    /\ UNCHANGED << surfaceSharedBuffer, surfaceBuffer >>
    /\ UNCHANGED << shouldExit, pendingBufferIdx, contentState, lastRenderedState,
                    registered, positionOnMainWindowSurface, buttonsPressedState,
                    eventFrame >>

\* variant: the iteration goes on to the dispatch without rendering,
\* whatever the flags and the content are
LoopSkip_WhateverThePendingWork ==
    /\ pc = "loop"
    /\ ~shouldExit
    /\ pc' = "dispatch"
    /\ handled' = <<>>
    /\ UNCHANGED << exitCode, shouldExit, mustBeRedrawn, readyToBeRedrawn,
                    pendingBufferIdx, pendingCallback, contentState,
                    lastRenderedState, callbacksCreated, registered >>
    /\ UNCHANGED pointerVars
    /\ written' = {}
    /\ returned' = Nothing
    /\ UNCHANGED << held, released >>
    /\ requests' = <<>>
    /\ UNCHANGED << surfaceSharedBuffer, surfaceBuffer >>

\* one iteration whose if statement is not taken
LoopSkip ==
    /\ pc = "loop"
    /\ ~shouldExit
    /\ ~RedrawCondition
    /\ pc' = "dispatch"
    /\ handled' = <<>>
    /\ UNCHANGED << exitCode, shouldExit, mustBeRedrawn, readyToBeRedrawn,
                    pendingBufferIdx, pendingCallback, contentState,
                    lastRenderedState, callbacksCreated, registered >>
    /\ UNCHANGED pointerVars
    /\ written' = {}
    /\ returned' = Nothing
    /\ UNCHANGED << held, released >>
    /\ requests' = <<>>
    /\ UNCHANGED << surfaceSharedBuffer, surfaceBuffer >>

\* variant: the result of wl_display_dispatch is not looked at
DispatchReturn_IgnoresFailure(failed) ==
    /\ pc = "dispatch"
    /\ shouldExit' = shouldExit
    /\ pc' = "loop"
    /\ handled' = <<>>
    /\ UNCHANGED << exitCode, mustBeRedrawn, readyToBeRedrawn, pendingBufferIdx,
                    pendingCallback, contentState, lastRenderedState,
                    callbacksCreated, registered >>
    /\ UNCHANGED pointerVars
    /\ written' = {}
    /\ returned' = Nothing
    /\ UNCHANGED << held, released >>
    /\ requests' = <<>>
    /\ UNCHANGED << surfaceSharedBuffer, surfaceBuffer >>

\* wl_display_dispatch returns (failed: it returned -1)
DispatchReturn(failed) ==
    /\ pc = "dispatch"
    /\ shouldExit' = (shouldExit \/ failed)
    /\ pc' = "loop"
    /\ handled' = <<>>
    /\ UNCHANGED << exitCode, mustBeRedrawn, readyToBeRedrawn, pendingBufferIdx,
                    pendingCallback, contentState, lastRenderedState,
                    callbacksCreated, registered >>
    /\ UNCHANGED pointerVars
    /\ written' = {}
    /\ returned' = Nothing
    /\ UNCHANGED << held, released >>
    /\ requests' = <<>>
    /\ UNCHANGED << surfaceSharedBuffer, surfaceBuffer >>

\* variant: the callback's identity is not compared
onSurfaceFrame_AnyCallback(callback) ==
    /\ pc = "dispatch"
    /\ readyToBeRedrawn' = TRUE
    /\ pendingCallback' = NullPtr
    /\ registered' = registered \ {callback}
    /\ handled' = <<>>
    /\ UNCHANGED << pc, exitCode, shouldExit, mustBeRedrawn, pendingBufferIdx,
                    contentState, lastRenderedState, callbacksCreated >>
    /\ UNCHANGED pointerVars
    /\ written' = {}
    /\ returned' = Nothing
    /\ UNCHANGED << held, released >>
    /\ requests' = <<>>
    /\ UNCHANGED << surfaceSharedBuffer, surfaceBuffer >>

\* variant: the matching callback opens the gate and stays recorded
onSurfaceFrame_KeepsPending(callback) ==
    /\ pc = "dispatch"
    /\ IF callback = pendingCallback
         THEN /\ readyToBeRedrawn' = TRUE
              /\ UNCHANGED pendingCallback
         ELSE UNCHANGED << readyToBeRedrawn, pendingCallback >>
    /\ registered' = registered \ {callback}
    /\ handled' = <<>>
    /\ UNCHANGED << pc, exitCode, shouldExit, mustBeRedrawn, pendingBufferIdx,
                    contentState, lastRenderedState, callbacksCreated >>
    /\ UNCHANGED pointerVars
    /\ written' = {}
    /\ returned' = Nothing
    /\ UNCHANGED << held, released >>
    /\ requests' = <<>>
    /\ UNCHANGED << surfaceSharedBuffer, surfaceBuffer >>

\* variant: the matching callback also withdraws the request for a redraw
onSurfaceFrame_DropsDamage(callback) ==
    /\ pc = "dispatch"
    /\ IF callback = pendingCallback
         THEN /\ readyToBeRedrawn' = TRUE
              /\ pendingCallback' = NullPtr
              /\ mustBeRedrawn' = FALSE
         ELSE UNCHANGED << readyToBeRedrawn, pendingCallback, mustBeRedrawn >>
    /\ registered' = registered \ {callback}
    /\ handled' = <<>>
    /\ UNCHANGED << pc, exitCode, shouldExit, pendingBufferIdx,
                    contentState, lastRenderedState, callbacksCreated >>
    /\ UNCHANGED pointerVars
    /\ written' = {}
    /\ returned' = Nothing
    /\ UNCHANGED << held, released >>
    /\ requests' = <<>>
    /\ UNCHANGED << surfaceSharedBuffer, surfaceBuffer >>

\* MainWindowRedrawHintListener::onSurfaceFrame
onSurfaceFrame(callback) ==
    /\ pc = "dispatch"
    /\ IF callback = pendingCallback
         THEN /\ readyToBeRedrawn' = TRUE
              /\ pendingCallback' = NullPtr
         ELSE UNCHANGED << readyToBeRedrawn, pendingCallback >>
    /\ registered' = registered \ {callback}
    /\ handled' = <<>>
    /\ UNCHANGED << pc, exitCode, shouldExit, mustBeRedrawn, pendingBufferIdx,
                    contentState, lastRenderedState, callbacksCreated >>
    /\ UNCHANGED pointerVars
    /\ written' = {}
    /\ returned' = Nothing
    /\ UNCHANGED << held, released >>
    /\ requests' = <<>>
    /\ UNCHANGED << surfaceSharedBuffer, surfaceBuffer >>

\* ConnectionListener::onError
onError ==
    /\ pc = "dispatch"
    /\ shouldExit' = TRUE
    /\ handled' = <<>>
    /\ UNCHANGED << pc, exitCode, mustBeRedrawn, readyToBeRedrawn, pendingBufferIdx,
                    pendingCallback, contentState, lastRenderedState,
                    callbacksCreated, registered >>
    /\ UNCHANGED pointerVars
    /\ written' = {}
    /\ returned' = Nothing
    /\ UNCHANGED << held, released >>
    /\ requests' = <<>>
    /\ UNCHANGED << surfaceSharedBuffer, surfaceBuffer >>

\* MainWindowSurfaceListener::onXdgTopLevelClose
onXdgTopLevelClose ==
    /\ pc = "dispatch"
    /\ shouldExit' = TRUE
    /\ handled' = <<>>
    /\ UNCHANGED << pc, exitCode, mustBeRedrawn, readyToBeRedrawn, pendingBufferIdx,
                    pendingCallback, contentState, lastRenderedState,
                    callbacksCreated, registered >>
    /\ UNCHANGED pointerVars
    /\ written' = {}
    /\ returned' = Nothing
    /\ UNCHANGED << held, released >>
    /\ requests' = <<>>
    /\ UNCHANGED << surfaceSharedBuffer, surfaceBuffer >>

(***************************************************************************)
(* wl_seat listener                                                        *)
(***************************************************************************)
\* capabilities & bit != 0, for a capabilities word given as the set of its bits
HasCapability(capabilities, bit) == bit \in capabilities

\* the calls of the keyboard attached listener of main() on the seat and on
\* the wl_keyboard it obtains
KeyboardAttachedRequests ==
    << [ request |-> "wl_seat_get_keyboard", args |-> << >> ],
       [ request |-> "wl_keyboard_add_listener", args |-> << >> ] >>

\* the calls of the pointing-device attached listener of main(): the
\* wl_pointer is obtained from the seat and the listener is added to it
PointingDevAttachedRequests ==
    << [ request |-> "wl_seat_get_pointer", args |-> << >> ],
       [ request |-> "wl_pointer_add_listener", args |-> << SeatPointer >> ] >>

\* variant: the attached listeners run whenever the capability is reported
onCapabilities_BindsWheneverReported(capabilities) ==
    /\ pc = "dispatch"
    /\ LET thereIsKeyboard == HasCapability(capabilities, WL_SEAT_CAPABILITY_KEYBOARD)
           thereIsPointingDev == HasCapability(capabilities, WL_SEAT_CAPABILITY_POINTER)
       IN  /\ IF thereIsKeyboard /\ "keyboard.wlDevice" \notin held
                THEN held' = held \cup {"keyboard.wlDevice"}
                ELSE UNCHANGED held
           /\ IF thereIsPointingDev
                THEN wlDevice' = SeatPointer
                ELSE UNCHANGED wlDevice
           /\ requests' =
                (IF thereIsKeyboard /\ "keyboard.wlDevice" \notin held
                   THEN KeyboardAttachedRequests ELSE << >>)
                \o (IF thereIsPointingDev
                      THEN PointingDevAttachedRequests ELSE << >>)
    /\ handled' = <<>>
    /\ written' = {}
    /\ returned' = Nothing
    /\ UNCHANGED released
    /\ UNCHANGED << surfaceSharedBuffer, surfaceBuffer >>
    /\ UNCHANGED << positionOnMainWindowSurface, buttonsPressedState, eventFrame >>
    /\ UNCHANGED << loopVars, mustBeRedrawn, contentState >>

\* InputDevicesListenerBridge::onCapabilities with the listeners main() adds:
\* the keyboard attached listener binds the wl_keyboard and the pointing-
\* device attached listener the wl_pointer; no detached listener and no
\* touchscreen listener is added, so the loops over them do nothing.
onCapabilities(capabilities) ==
    /\ pc = "dispatch"
    /\ LET thereIsKeyboard == HasCapability(capabilities, WL_SEAT_CAPABILITY_KEYBOARD)
           thereIsPointingDev == HasCapability(capabilities, WL_SEAT_CAPABILITY_POINTER)
       IN  /\ IF thereIsKeyboard /\ "keyboard.wlDevice" \notin held
                THEN held' = held \cup {"keyboard.wlDevice"}
                ELSE UNCHANGED held
           /\ IF thereIsPointingDev /\ wlDevice = NullPtr
                THEN wlDevice' = SeatPointer
                ELSE UNCHANGED wlDevice
           /\ requests' =
                (IF thereIsKeyboard /\ "keyboard.wlDevice" \notin held
                   THEN KeyboardAttachedRequests ELSE << >>)
                \o (IF thereIsPointingDev /\ wlDevice = NullPtr
                      THEN PointingDevAttachedRequests ELSE << >>)
    /\ handled' = <<>>
    /\ written' = {}
    /\ returned' = Nothing
    /\ UNCHANGED released
    /\ UNCHANGED << surfaceSharedBuffer, surfaceBuffer >>
    /\ UNCHANGED << positionOnMainWindowSurface, buttonsPressedState, eventFrame >>
    /\ UNCHANGED << loopVars, mustBeRedrawn, contentState >>

(***************************************************************************)
(* wl_keyboard listener                                                    *)
(***************************************************************************)
\* wl_keyboard_key_state
WL_KEYBOARD_KEY_STATE_RELEASED == 0
WL_KEYBOARD_KEY_STATE_PRESSED == 1

\* KeyboardListener::onKey: the serial is stored in keyboard.lastSerial and a
\* pressed key is looked up and logged; the fields of the program that are
\* modelled are left as they are, whatever the key state
onKey(serial, time, keyScancode, state) ==
    /\ pc = "dispatch"
    /\ "keyboard.wlDevice" \in held
    /\ handled' = <<>>
    /\ written' = {}
    /\ returned' = Nothing
    /\ requests' = <<>>
    /\ UNCHANGED << held, released >>
    /\ UNCHANGED << surfaceSharedBuffer, surfaceBuffer >>
    /\ UNCHANGED << wlDevice, positionOnMainWindowSurface, buttonsPressedState,
                    eventFrame >>
    /\ UNCHANGED << loopVars, mustBeRedrawn, contentState >>

(***************************************************************************)
(* wl_pointer listener: building the event frame                           *)
(***************************************************************************)
\* operator==(const T&, const WLResourceWrapper<T>&)
EqualsResource(lhs, wrapper) == wrapper # NullPtr /\ lhs = wrapper

\* wl_pointer_event_frame_types::Axes::Axis{}
EmptyAxis ==
    [ launchedTimestampMs |-> Nothing,
      value |-> Nothing,
      stoppedTimestampMs |-> Nothing,
      one120thFractionsOfWheelStep |-> Nothing,
      relativeDirectionType |-> Nothing ]

\* wl_pointer_event_frame_types::Axes{}
EmptyAxes ==
    [ kind |-> "Axes", horizontal |-> Nothing, vertical |-> Nothing,
      axisSource |-> Nothing ]

\* the callbacks run only once wl_pointer_add_listener has installed them
PointerListenerInstalled == pc = "dispatch" /\ wlDevice # NullPtr

\* what a callback that only touches the pending frame leaves alone
FrameOnlyUnchanged ==
    /\ handled' = <<>>
    /\ written' = {}
    /\ returned' = Nothing
    /\ UNCHANGED << held, released >>
    /\ requests' = <<>>
    /\ UNCHANGED << surfaceSharedBuffer, surfaceBuffer >>
    /\ UNCHANGED << wlDevice, positionOnMainWindowSurface, buttonsPressedState >>
    /\ UNCHANGED << loopVars, mustBeRedrawn, contentState >>

\* variant: the new event replaces the pending frame
StartFrame_Overwrites(pd, info) ==
    /\ PointerListenerInstalled
    /\ eventFrame' = Some([sourceDev |-> pd, info |-> info])
    /\ FrameOnlyUnchanged

\* the shared body of onEnter/onLeave/onMotion/onButton: skip when a frame is
\* pending, else emplace the frame
StartFrame(pd, info) ==
    /\ PointerListenerInstalled
    /\ IF HasValue(eventFrame)
         THEN UNCHANGED eventFrame
         ELSE eventFrame' = Some([sourceDev |-> pd, info |-> info])
    /\ FrameOnlyUnchanged

\* PointingDeviceListener::onEnter
onEnter(pd, evSerial, enteredSurface, surfaceLocalX, surfaceLocalY) ==
    StartFrame(pd, [ kind |-> "Enter", evSerial |-> evSerial,
                     surfaceEntered |-> enteredSurface,
                     posX |-> WlFixedToDouble(surfaceLocalX),
                     posY |-> WlFixedToDouble(surfaceLocalY) ])

\* PointingDeviceListener::onLeave
onLeave(pd, evSerial, surfaceLeft) ==
    StartFrame(pd, [ kind |-> "Leave", evSerial |-> evSerial,
                     surfaceLeft |-> surfaceLeft ])

\* PointingDeviceListener::onMotion
onMotion(pd, evTimestampMs, surfaceLocalX, surfaceLocalY) ==
    StartFrame(pd, [ kind |-> "Motion", evTimestampMs |-> evTimestampMs,
                     surfaceLocalX |-> WlFixedToDouble(surfaceLocalX),
                     surfaceLocalY |-> WlFixedToDouble(surfaceLocalY) ])

\* PointingDeviceListener::onButton
onButton(pd, evSerial, evTimestampMs, button, state) ==
    StartFrame(pd, [ kind |-> "Button", evSerial |-> evSerial,
                     evTimestampMs |-> evTimestampMs, button |-> button,
                     state |-> state ])

\* variant: a new Axes frame is emplaced whatever is pending
FrameAfterGetAxes_Replaces(pd) ==
    [sourceDev |-> pd, info |-> EmptyAxes]

\* PointingDeviceListener::getAxesFramePtrOrNull: the pending frame after the
\* call (a new Axes frame is emplaced when none is pending) ...
FrameAfterGetAxes(pd) ==
    IF HasValue(eventFrame)
      THEN ValueOf(eventFrame)
      ELSE [sourceDev |-> pd, info |-> EmptyAxes]

\* ... and whether it returns nullptr
GetAxesReturnsNull(pd) == FrameAfterGetAxes(pd).info.kind # "Axes"

\* axisType selects vertical, anything else horizontal
AxisToHandle(axes, axisType) ==
    IF axisType = WL_POINTER_AXIS_VERTICAL_SCROLL THEN axes.vertical ELSE axes.horizontal

\* assignment through the axisToHandle reference
WithAxis(frame, axisType, axis) ==
    IF axisType = WL_POINTER_AXIS_VERTICAL_SCROLL
      THEN [frame EXCEPT !.info.vertical = Some(axis)]
      ELSE [frame EXCEPT !.info.horizontal = Some(axis)]

\* the axis behind the axisToHandle reference once an absent one is emplaced
EmplacedAxis(frame, axisType) ==
    ValueOr(AxisToHandle(frame.info, axisType), EmptyAxis)

\* PointingDeviceListener::onAxis
onAxis(pd, evTimestampMs, axisType, value) ==
    /\ PointerListenerInstalled
    /\ IF GetAxesReturnsNull(pd)
         THEN UNCHANGED eventFrame
         ELSE LET frame == FrameAfterGetAxes(pd)
                  axisToHandle == EmplacedAxis(frame, axisType)
              IN  IF HasValue(axisToHandle.value)
                    THEN eventFrame' = Some(frame)
                    ELSE eventFrame' = Some(WithAxis(frame, axisType,
                           [axisToHandle EXCEPT
                              !.launchedTimestampMs = Some(evTimestampMs),
                              !.value = Some(WlFixedToDouble(value))]))
    /\ FrameOnlyUnchanged

\* variant: a later axis source replaces the stored one
onAxisSource_Overwrites(pd, axisSource) ==
    /\ PointerListenerInstalled
    /\ IF GetAxesReturnsNull(pd)
         THEN UNCHANGED eventFrame
         ELSE eventFrame' =
                Some([FrameAfterGetAxes(pd) EXCEPT !.info.axisSource = Some(axisSource)])
    /\ FrameOnlyUnchanged

\* PointingDeviceListener::onAxisSource
onAxisSource(pd, axisSource) ==
    /\ PointerListenerInstalled
    /\ IF GetAxesReturnsNull(pd)
         THEN UNCHANGED eventFrame
         ELSE LET frame == FrameAfterGetAxes(pd)
              IN  IF HasValue(frame.info.axisSource)
                    THEN eventFrame' = Some(frame)
                    ELSE eventFrame' = Some([frame EXCEPT !.info.axisSource = Some(axisSource)])
    /\ FrameOnlyUnchanged

\* variant: a later stop notification replaces the stored timestamp
onAxisStop_Overwrites(pd, evTimestampMs, axisStopped) ==
    /\ PointerListenerInstalled
    /\ IF GetAxesReturnsNull(pd)
         THEN UNCHANGED eventFrame
         ELSE LET frame == FrameAfterGetAxes(pd)
                  axisToHandle == EmplacedAxis(frame, axisStopped)
              IN  eventFrame' = Some(WithAxis(frame, axisStopped,
                           [axisToHandle EXCEPT
                              !.stoppedTimestampMs = Some(evTimestampMs)]))
    /\ FrameOnlyUnchanged

\* PointingDeviceListener::onAxisStop
onAxisStop(pd, evTimestampMs, axisStopped) ==
    /\ PointerListenerInstalled
    /\ IF GetAxesReturnsNull(pd)
         THEN UNCHANGED eventFrame
         ELSE LET frame == FrameAfterGetAxes(pd)
                  axisToHandle == EmplacedAxis(frame, axisStopped)
              IN  IF HasValue(axisToHandle.stoppedTimestampMs)
                    THEN eventFrame' = Some(frame)
                    ELSE eventFrame' = Some(WithAxis(frame, axisStopped,
                           [axisToHandle EXCEPT
                              !.stoppedTimestampMs = Some(evTimestampMs)]))
    /\ FrameOnlyUnchanged

\* PointingDeviceListener::onAxisValue120
onAxisValue120(pd, axisType, one120thFractionsOf1Step) ==
    /\ PointerListenerInstalled
    /\ IF GetAxesReturnsNull(pd)
         THEN UNCHANGED eventFrame
         ELSE LET frame == FrameAfterGetAxes(pd)
                  axisToHandle == EmplacedAxis(frame, axisType)
              IN  IF HasValue(axisToHandle.one120thFractionsOfWheelStep)
                    THEN eventFrame' = Some(frame)
                    ELSE eventFrame' = Some(WithAxis(frame, axisType,
                           [axisToHandle EXCEPT
                              !.one120thFractionsOfWheelStep =
                                  Some(one120thFractionsOf1Step)]))
    /\ FrameOnlyUnchanged

\* std::int32_t (TLC's own integers are 32 bits wide, so the arithmetic below
\* is done on 16-bit limbs and never leaves that range)
INT32_MAX == 2147483647
INT32_MIN == -INT32_MAX - 1
Limb == 65536
\* the two's complement int32 whose high and low 16 bits are hi and lo
Int32FromLimbs(hi, lo) ==
    IF hi >= Limb \div 2 THEN (hi - Limb) * Limb + lo ELSE hi * Limb + lo
\* the low 32 bits of n * k as an int32, for an int32 n and 0 < k < 2^15
MulWrapInt32(n, k) ==
    LET low == (n % Limb) * k
        hi == ((n \div Limb) * k + low \div Limb) % Limb
    IN  Int32FromLimbs(hi, low % Limb)
\* whether the product n * k of an int32 n and k > 0 is an int32
ProductFitsInt32(n, k) == -(INT32_MAX \div k) <= n /\ n <= INT32_MAX \div k

\* the int expression discreteNumberOfSteps * 120: the product when it fits;
\* signed overflow is undefined, the value then passed on is the wrapped
\* product or any other int32 (sampled at its extremes and at 0)
DiscreteStepsTimes120(discreteNumberOfSteps) ==
    IF ProductFitsInt32(discreteNumberOfSteps, WheelStepFractions)
      THEN {discreteNumberOfSteps * WheelStepFractions}
      ELSE {MulWrapInt32(discreteNumberOfSteps, WheelStepFractions),
            INT32_MIN, 0, INT32_MAX}

\* variant: the step count is passed on without the factor 120
onAxisDiscrete_Unscaled(pd, axisType, discreteNumberOfSteps) ==
    onAxisValue120(pd, axisType, discreteNumberOfSteps)

\* PointingDeviceListener::onAxisDiscrete
onAxisDiscrete(pd, axisType, discreteNumberOfSteps) ==
    \E one120thFractionsOf1Step \in DiscreteStepsTimes120(discreteNumberOfSteps) :
        onAxisValue120(pd, axisType, one120thFractionsOf1Step)

(***************************************************************************)
(* The interpreter: PointingDeviceListener::handleFrame                    *)
(*                                                                         *)
(* Each overload is an operator from the frame (and the current state) to  *)
(* the values it leaves in positionOnMainWindowSurface,                    *)
(* buttonsPressedState, contentState and mustBeRedrawn.                    *)
(***************************************************************************)
Untouched ==
    [ position |-> positionOnMainWindowSurface,
      buttons |-> buttonsPressedState,
      content |-> contentState,
      redraw |-> mustBeRedrawn ]

\* variant: the pressed buttons survive the entering
handleFrameEnter_KeepsButtons(enterFrame) ==
    IF ~EqualsResource(enterFrame.surfaceEntered, MainSurface)
      THEN Untouched
      ELSE [ Untouched EXCEPT
               !.position = Some([x |-> enterFrame.posX, y |-> enterFrame.posY]) ]

\* handleFrame(wl_pointer_event_frame_types::Enter)
handleFrameEnter(enterFrame) ==
    IF ~EqualsResource(enterFrame.surfaceEntered, MainSurface)
      THEN Untouched
      ELSE [ Untouched EXCEPT
               !.position = Some([x |-> enterFrame.posX, y |-> enterFrame.posY]),
               !.buttons = {} ]

\* variant: the surface that was left is not compared
handleFrameLeave_AnySurface(leaveFrame) ==
    [ Untouched EXCEPT !.buttons = {}, !.position = Nothing ]

\* handleFrame(wl_pointer_event_frame_types::Leave)
handleFrameLeave(leaveFrame) ==
    IF ~EqualsResource(leaveFrame.surfaceLeft, MainSurface)
      THEN Untouched
      ELSE [ Untouched EXCEPT !.buttons = {}, !.position = Nothing ]

\* variant: the drag offset is added, not subtracted
handleFrameMotion_NotInverted(motionFrame) ==
    LET newPosition == Some([x |-> motionFrame.surfaceLocalX,
                             y |-> motionFrame.surfaceLocalY])
        onlyLMB == /\ HasValue(positionOnMainWindowSurface)
                   /\ IDX_LMB \in buttonsPressedState
                   /\ Cardinality(buttonsPressedState) = 1
    IN  IF onlyLMB
          THEN LET current == ValueOf(positionOnMainWindowSurface)
                   movingOffsetX == motionFrame.surfaceLocalX - current.x
                   movingOffsetY == motionFrame.surfaceLocalY - current.y
               IN  IF movingOffsetX # 0 \/ movingOffsetY # 0
                     THEN [ Untouched EXCEPT
                              !.content = movedFor(contentState, movingOffsetX,
                                                   movingOffsetY),
                              !.redraw = TRUE,
                              !.position = newPosition ]
                     ELSE [ Untouched EXCEPT !.position = newPosition ]
          ELSE [ Untouched EXCEPT !.position = newPosition ]

\* handleFrame(wl_pointer_event_frame_types::Motion)
handleFrameMotion(motionFrame) ==
    LET newPosition == Some([x |-> motionFrame.surfaceLocalX,
                             y |-> motionFrame.surfaceLocalY])
        onlyLMB == /\ HasValue(positionOnMainWindowSurface)
                   /\ IDX_LMB \in buttonsPressedState
                   /\ Cardinality(buttonsPressedState) = 1
    IN  IF onlyLMB
          THEN LET current == ValueOf(positionOnMainWindowSurface)
                   movingOffsetX == motionFrame.surfaceLocalX - current.x
                   movingOffsetY == motionFrame.surfaceLocalY - current.y
               IN  IF movingOffsetX # 0 \/ movingOffsetY # 0
                     THEN [ Untouched EXCEPT
                              !.content = movedFor(contentState, -movingOffsetX,
                                                   -movingOffsetY),
                              !.redraw = TRUE,
                              !.position = newPosition ]
                     ELSE [ Untouched EXCEPT !.position = newPosition ]
          ELSE [ Untouched EXCEPT !.position = newPosition ]

\* variant: BTN_TASK shares the index of BTN_BACK
ButtonIdx_TaskCollides(linuxButton) ==
    CASE linuxButton = BTN_LEFT -> IDX_LMB
      [] linuxButton = BTN_RIGHT -> IDX_RMB
      [] linuxButton = BTN_MIDDLE -> IDX_MMB
      [] linuxButton = BTN_SIDE -> IDX_OTHERS_BEGIN + 0
      [] linuxButton = BTN_EXTRA -> IDX_OTHERS_BEGIN + 1
      [] linuxButton = BTN_FORWARD -> IDX_OTHERS_BEGIN + 2
      [] linuxButton = BTN_BACK -> IDX_OTHERS_BEGIN + 3
      [] linuxButton = BTN_TASK -> IDX_OTHERS_BEGIN + 3
      [] linuxButton = BTN_0 -> IDX_OTHERS_BEGIN + 5
      [] linuxButton = BTN_1 -> IDX_OTHERS_BEGIN + 6
      [] linuxButton = BTN_2 -> IDX_OTHERS_BEGIN + 7
      [] linuxButton = BTN_3 -> IDX_OTHERS_BEGIN + 8
      [] linuxButton = BTN_4 -> IDX_OTHERS_BEGIN + 9
      [] linuxButton = BTN_5 -> IDX_OTHERS_BEGIN + 10
      [] linuxButton = BTN_6 -> IDX_OTHERS_BEGIN + 11
      [] linuxButton = BTN_7 -> IDX_OTHERS_BEGIN + 12
      [] linuxButton = BTN_8 -> IDX_OTHERS_BEGIN + 13
      [] linuxButton = BTN_9 -> IDX_OTHERS_BEGIN + 14
      [] OTHER -> -1

\* the switch of handleFrame(Button): the index of a linux button code, -1
\* when there is no case for it
ButtonIdx(linuxButton) ==
    CASE linuxButton = BTN_LEFT -> IDX_LMB
      [] linuxButton = BTN_RIGHT -> IDX_RMB
      [] linuxButton = BTN_MIDDLE -> IDX_MMB
      [] linuxButton = BTN_SIDE -> IDX_OTHERS_BEGIN + 0
      [] linuxButton = BTN_EXTRA -> IDX_OTHERS_BEGIN + 1
      [] linuxButton = BTN_FORWARD -> IDX_OTHERS_BEGIN + 2
      [] linuxButton = BTN_BACK -> IDX_OTHERS_BEGIN + 3
      [] linuxButton = BTN_TASK -> IDX_OTHERS_BEGIN + 4
      [] linuxButton = BTN_0 -> IDX_OTHERS_BEGIN + 5
      [] linuxButton = BTN_1 -> IDX_OTHERS_BEGIN + 6
      [] linuxButton = BTN_2 -> IDX_OTHERS_BEGIN + 7
      [] linuxButton = BTN_3 -> IDX_OTHERS_BEGIN + 8
      [] linuxButton = BTN_4 -> IDX_OTHERS_BEGIN + 9
      [] linuxButton = BTN_5 -> IDX_OTHERS_BEGIN + 10
      [] linuxButton = BTN_6 -> IDX_OTHERS_BEGIN + 11
      [] linuxButton = BTN_7 -> IDX_OTHERS_BEGIN + 12
      [] linuxButton = BTN_8 -> IDX_OTHERS_BEGIN + 13
      [] linuxButton = BTN_9 -> IDX_OTHERS_BEGIN + 14
      [] OTHER -> -1

\* handleFrame(wl_pointer_event_frame_types::Button)
handleFrameButton(buttonFrame) ==
    LET buttonIdx == ButtonIdx(buttonFrame.button)
    IN  IF buttonIdx < 0 \/ buttonIdx >= ButtonsBitsetSize
          THEN Untouched
          ELSE IF buttonFrame.state = WL_POINTER_BUTTON_STATE_PRESSED
                 THEN [ Untouched EXCEPT !.buttons = buttonsPressedState \cup {buttonIdx} ]
                 ELSE [ Untouched EXCEPT !.buttons = buttonsPressedState \ {buttonIdx} ]

\* variant: the scroll offset is subtracted, as for a drag
handleFrameAxes_Inverted(axesFrame) ==
    LET movingOffsetX == IF HasValue(axesFrame.horizontal)
                           THEN ValueOr(ValueOf(axesFrame.horizontal).value, 0)
                           ELSE 0
        movingOffsetY == IF HasValue(axesFrame.vertical)
                           THEN ValueOr(ValueOf(axesFrame.vertical).value, 0)
                           ELSE 0
    IN  IF movingOffsetX # 0 \/ movingOffsetY # 0
          THEN [ Untouched EXCEPT
                   !.content = movedFor(contentState, -movingOffsetX, -movingOffsetY),
                   !.redraw = TRUE ]
          ELSE Untouched

\* handleFrame(wl_pointer_event_frame_types::Axes)
handleFrameAxes(axesFrame) ==
    LET movingOffsetX == IF HasValue(axesFrame.horizontal)
                           THEN ValueOr(ValueOf(axesFrame.horizontal).value, 0)
                           ELSE 0
        movingOffsetY == IF HasValue(axesFrame.vertical)
                           THEN ValueOr(ValueOf(axesFrame.vertical).value, 0)
                           ELSE 0
    IN  IF movingOffsetX # 0 \/ movingOffsetY # 0
          THEN [ Untouched EXCEPT
                   !.content = movedFor(contentState, movingOffsetX, movingOffsetY),
                   !.redraw = TRUE ]
          ELSE Untouched

\* std::visit over evFrame.info
handleFrame(info) ==
    CASE info.kind = "Enter" -> handleFrameEnter(info)
      [] info.kind = "Leave" -> handleFrameLeave(info)
      [] info.kind = "Motion" -> handleFrameMotion(info)
      [] info.kind = "Button" -> handleFrameButton(info)
      [] info.kind = "Axes" -> handleFrameAxes(info)

\* variant: only the device of the frame signal is compared
FrameIsDiscarded_SignalOnly(pd, evFrame) == pd # evFrame.sourceDev

\* the two checks of onFrame that discard a frame
FrameIsDiscarded(pd, evFrame) ==
    \/ pd # evFrame.sourceDev
    \/ ~EqualsResource(evFrame.sourceDev, wlDevice)

\* variant: the pending frame is handled but left in its slot
onFrame_KeepsPending(pd) ==
    /\ PointerListenerInstalled
    /\ IF ~HasValue(eventFrame) \/ FrameIsDiscarded(pd, ValueOf(eventFrame))
         THEN /\ handled' = <<>>
              /\ eventFrame' = Nothing
              /\ UNCHANGED << positionOnMainWindowSurface, buttonsPressedState,
                              contentState, mustBeRedrawn >>
         ELSE LET result == handleFrame(ValueOf(eventFrame).info)
              IN  /\ handled' = << ValueOf(eventFrame).info >>
                  /\ UNCHANGED eventFrame
                  /\ positionOnMainWindowSurface' = result.position
                  /\ buttonsPressedState' = result.buttons
                  /\ contentState' = result.content
                  /\ mustBeRedrawn' = result.redraw
    /\ UNCHANGED wlDevice
    /\ UNCHANGED loopVars
    /\ written' = {}
    /\ returned' = Nothing
    /\ UNCHANGED << held, released >>
    /\ requests' = <<>>
    /\ UNCHANGED << surfaceSharedBuffer, surfaceBuffer >>

\* variant: a frame signal asks for a redraw even when no frame is pending
onFrame_RedrawsOnEmpty(pd) ==
    /\ PointerListenerInstalled
    /\ IF ~HasValue(eventFrame)
         THEN /\ handled' = <<>>
              /\ mustBeRedrawn' = TRUE
              /\ UNCHANGED << eventFrame, positionOnMainWindowSurface,
                              buttonsPressedState, contentState >>
         ELSE LET evFrame == ValueOf(eventFrame)
              IN  /\ eventFrame' = Nothing
                  /\ IF FrameIsDiscarded(pd, evFrame)
                       THEN /\ handled' = <<>>
                            /\ UNCHANGED << positionOnMainWindowSurface,
                                            buttonsPressedState, contentState,
                                            mustBeRedrawn >>
                       ELSE LET result == handleFrame(evFrame.info)
                            IN  /\ handled' = << evFrame.info >>
                                /\ positionOnMainWindowSurface' = result.position
                                /\ buttonsPressedState' = result.buttons
                                /\ contentState' = result.content
                                /\ mustBeRedrawn' = result.redraw
    /\ UNCHANGED wlDevice
    /\ UNCHANGED loopVars
    /\ written' = {}
    /\ returned' = Nothing
    /\ UNCHANGED << held, released >>
    /\ requests' = <<>>
    /\ UNCHANGED << surfaceSharedBuffer, surfaceBuffer >>

\* PointingDeviceListener::onFrame
onFrame(pd) ==
    /\ PointerListenerInstalled
    /\ IF ~HasValue(eventFrame)
         THEN /\ handled' = <<>>
              /\ UNCHANGED << eventFrame, positionOnMainWindowSurface,
                              buttonsPressedState, contentState, mustBeRedrawn >>
         ELSE LET evFrame == ValueOf(eventFrame)
              IN  /\ eventFrame' = Nothing
                  /\ IF FrameIsDiscarded(pd, evFrame)
                       THEN /\ handled' = <<>>
                            /\ UNCHANGED << positionOnMainWindowSurface,
                                            buttonsPressedState, contentState,
                                            mustBeRedrawn >>
                       ELSE LET result == handleFrame(evFrame.info)
                            IN  /\ handled' = << evFrame.info >>
                                /\ positionOnMainWindowSurface' = result.position
                                /\ buttonsPressedState' = result.buttons
                                /\ contentState' = result.content
                                /\ mustBeRedrawn' = result.redraw
    /\ UNCHANGED wlDevice
    /\ UNCHANGED loopVars
    /\ written' = {}
    /\ returned' = Nothing
    /\ UNCHANGED << held, released >>
    /\ requests' = <<>>
    /\ UNCHANGED << surfaceSharedBuffer, surfaceBuffer >>

(***************************************************************************)
(* What the compositor sends: the arguments of the callbacks.              *)
(* Spec runs the whole program against coarse arguments; SpecPointer,      *)
(* SpecAxes and SpecButtons run it against a compositor that keeps the     *)
(* first wl_display_dispatch busy with pointer events of finer arguments.  *)
(***************************************************************************)
Devices == {SeatPointer, ForeignPointer}
Surfaces == {MainSurface, OtherSurface}
\* wl_fixed_t coordinates: 100.0 / 110.0
FixedXs == {Pixels(100), Pixels(110)}
ButtonCodes == {BTN_LEFT, BTN_RIGHT, BTN_UNMAPPED}
AllButtonCodes ==
    { BTN_LEFT, BTN_RIGHT, BTN_MIDDLE, BTN_SIDE, BTN_EXTRA, BTN_FORWARD, BTN_BACK,
      BTN_TASK, BTN_0, BTN_1, BTN_2, BTN_3, BTN_4, BTN_5, BTN_6, BTN_7, BTN_8,
      BTN_9, BTN_UNMAPPED }
ButtonStates == {WL_POINTER_BUTTON_STATE_RELEASED, WL_POINTER_BUTTON_STATE_PRESSED}
AxisTypes == {WL_POINTER_AXIS_VERTICAL_SCROLL, WL_POINTER_AXIS_HORIZONTAL_SCROLL}
\* wl_fixed_t scroll lengths: 0.0 and 5.0
AxisValues == {0, Pixels(5)}
\* wl_pointer_axis_source: wheel
AxisSources == {0}
\* timestamps of axis_stop events, ms
StopTimestamps == {1, 2}
DiscreteSteps == {1, 2}
Value120s == {WheelStepFractions, 2 * WheelStepFractions}
CapabilitySets == { {WL_SEAT_CAPABILITY_KEYBOARD},
                    {WL_SEAT_CAPABILITY_POINTER, WL_SEAT_CAPABILITY_KEYBOARD} }

\* the pan offsets explored
PanInBound(s) ==
    /\ s.viewportOffsetX \in -Pixels(MaxPanPixels) .. Pixels(MaxPanPixels)
    /\ s.viewportOffsetY \in -Pixels(MaxPanPixels) .. Pixels(MaxPanPixels)

\* a step of the program: the loop of main() moves on (no arguments), or
\* wl_display_dispatch invokes the callback op with the arguments args
FrameStartingEvents == { "onEnter", "onLeave", "onMotion", "onButton" }
AxisFamilyEvents ==
    { "onAxis", "onAxisSource", "onAxisStop", "onAxisDiscrete", "onAxisValue120" }
StepOf(op, args, A) ==
    /\ A
    /\ lastCall' = [op |-> op, args |-> args, pending |-> eventFrame,
                    position |-> positionOnMainWindowSurface,
                    buttons |-> buttonsPressedState]
    /\ firstOfBurst' = IF op = "onFrame" THEN Nothing
                       ELSE IF HasValue(firstOfBurst) THEN firstOfBurst
                       ELSE IF op \in FrameStartingEvents
                              THEN Some([op |-> op, args |-> args])
                       ELSE IF op \in AxisFamilyEvents
                              THEN Some([op |-> "axis", args |-> <<>>])
                       ELSE firstOfBurst
Step(op, args, A) ==
    /\ StepOf(op, args, A)
    /\ UNCHANGED renderedImages
Called(op) == lastCall.op = op
Arg(i) == lastCall.args[i]

\* ---- the whole program, coarse arguments ----
EvDispatchReturn ==
    \E failed \in BOOLEAN : Step("DispatchReturn", << failed >>, DispatchReturn(failed))
EvSurfaceFrame ==
    \E callback \in 1 .. callbacksCreated :
        Step("onSurfaceFrame", << callback >>, onSurfaceFrame(callback))
EvCapabilities ==
    \E capabilities \in CapabilitySets :
        Step("onCapabilities", << capabilities >>, onCapabilities(capabilities))
EvEnter ==
    Step("onEnter", << SeatPointer, 1, MainSurface, Pixels(100), Pixels(200) >>,
         onEnter(SeatPointer, 1, MainSurface, Pixels(100), Pixels(200)))
EvLeave ==
    Step("onLeave", << SeatPointer, 1, MainSurface >>, onLeave(SeatPointer, 1, MainSurface))
EvMotion ==
    \E x \in FixedXs :
        Step("onMotion", << SeatPointer, 1, x, Pixels(200) >>,
             onMotion(SeatPointer, 1, x, Pixels(200)))
EvButton ==
    \E state \in ButtonStates :
        Step("onButton", << SeatPointer, 1, 1, BTN_LEFT, state >>,
             onButton(SeatPointer, 1, 1, BTN_LEFT, state))
EvAxis ==
    Step("onAxis", << SeatPointer, 1, WL_POINTER_AXIS_HORIZONTAL_SCROLL, Pixels(10) >>,
         onAxis(SeatPointer, 1, WL_POINTER_AXIS_HORIZONTAL_SCROLL, Pixels(10)))
EvFrame ==
    Step("onFrame", << SeatPointer >>, onFrame(SeatPointer)) /\ PanInBound(contentState')

MainLoopExit == Step("LoopExit", <<>>, LoopExit)
MainLoopRender == Step("LoopRender", <<>>, LoopRender)
MainLoopSkip == Step("LoopSkip", <<>>, LoopSkip)
EvError == Step("onError", <<>>, onError)
EvXdgTopLevelClose == Step("onXdgTopLevelClose", <<>>, onXdgTopLevelClose)

Next ==
    \/ MainLoopExit
    \/ MainLoopRender
    \/ MainLoopSkip
    \/ EvDispatchReturn
    \/ EvSurfaceFrame
    \/ EvError
    \/ EvXdgTopLevelClose
    \/ EvCapabilities
    \/ EvEnter
    \/ EvLeave
    \/ EvMotion
    \/ EvButton
    \/ EvAxis
    \/ EvFrame

Spec == Init /\ [][Next]_vars

\* ---- the whole program with the key events of the bound wl_keyboard ----
\* key states: released, pressed, and one outside the enumeration
KeyStates == {WL_KEYBOARD_KEY_STATE_RELEASED, WL_KEYBOARD_KEY_STATE_PRESSED, 2}
EvKey ==
    \E state \in KeyStates :
        Step("onKey", << 1, 1, 1, state >>, onKey(1, 1, 1, state))

NextKeyboard ==
    \/ Next
    \/ EvKey

SpecKeyboard == Init /\ [][NextKeyboard]_vars

\* ---- the whole program where the loop keeps running and the compositor
\* answers: an iteration that can be taken is taken, wl_display_dispatch
\* returns, and the compositor sends the done event of the outstanding
\* wl_surface::frame callback ----
EvPendingSurfaceFrame ==
    /\ pendingCallback # NullPtr
    /\ Step("onSurfaceFrame", << pendingCallback >>, onSurfaceFrame(pendingCallback))

SpecFair ==
    /\ Init
    /\ [][Next]_vars
    /\ WF_vars(MainLoopRender)
    /\ WF_vars(MainLoopSkip)
    /\ WF_vars(EvDispatchReturn)
    /\ SF_vars(EvPendingSurfaceFrame)

\* ---- a pointer session: enter, leave, motion, button, axis, frame ----
\* (100.0, 200.0) and (110.0, 205.0) as wl_fixed_t pairs
FixedPositions ==
    { << Pixels(100), Pixels(200) >>, << Pixels(110), Pixels(205) >> }
\* axis and wl_fixed_t length: horizontal 0.0 and 10.0, vertical 5.0
PtrAxisArgs ==
    { << WL_POINTER_AXIS_HORIZONTAL_SCROLL, 0 >>,
      << WL_POINTER_AXIS_HORIZONTAL_SCROLL, Pixels(10) >>,
      << WL_POINTER_AXIS_VERTICAL_SCROLL, Pixels(5) >> }
PtrEnter ==
    \E surface \in Surfaces, p \in FixedPositions :
        Step("onEnter", << SeatPointer, 1, surface, p[1], p[2] >>,
             onEnter(SeatPointer, 1, surface, p[1], p[2]))
PtrLeave ==
    \E surface \in Surfaces :
        Step("onLeave", << SeatPointer, 1, surface >>, onLeave(SeatPointer, 1, surface))
PtrMotion ==
    \E p \in FixedPositions :
        Step("onMotion", << SeatPointer, 1, p[1], p[2] >>,
             onMotion(SeatPointer, 1, p[1], p[2]))
PtrButton ==
    \E button \in ButtonCodes, state \in ButtonStates :
        Step("onButton", << SeatPointer, 1, 1, button, state >>,
             onButton(SeatPointer, 1, 1, button, state))
PtrAxis ==
    \E a \in PtrAxisArgs :
        Step("onAxis", << SeatPointer, 1, a[1], a[2] >>,
             onAxis(SeatPointer, 1, a[1], a[2]))
\* a wl_pointer other than the bound one starts a frame
PtrForeignMotion ==
    Step("onMotion", << ForeignPointer, 1, Pixels(110), Pixels(205) >>,
         onMotion(ForeignPointer, 1, Pixels(110), Pixels(205)))
PtrFrame ==
    \E pd \in Devices : Step("onFrame", << pd >>, onFrame(pd)) /\ PanInBound(contentState')

NextPointer ==
    \/ MainLoopRender
    \/ EvCapabilities
    \/ PtrEnter
    \/ PtrLeave
    \/ PtrMotion
    \/ PtrButton
    \/ PtrAxis
    \/ PtrForeignMotion
    \/ PtrFrame

SpecPointer == Init /\ [][NextPointer]_vars

\* ---- a scrolling session: the axis family and frame ----
ScrollAxis ==
    \E axisType \in AxisTypes, value \in AxisValues :
        Step("onAxis", << SeatPointer, 1, axisType, value >>,
             onAxis(SeatPointer, 1, axisType, value))
ScrollAxisSource ==
    \E axisSource \in AxisSources :
        Step("onAxisSource", << SeatPointer, axisSource >>,
             onAxisSource(SeatPointer, axisSource))
ScrollAxisStop ==
    \E axisType \in AxisTypes :
        Step("onAxisStop", << SeatPointer, 1, axisType >>,
             onAxisStop(SeatPointer, 1, axisType))
ScrollAxisDiscrete ==
    \E axisType \in AxisTypes, n \in DiscreteSteps :
        Step("onAxisDiscrete", << SeatPointer, axisType, n >>,
             onAxisDiscrete(SeatPointer, axisType, n))
ScrollAxisValue120 ==
    \E axisType \in AxisTypes, v \in Value120s :
        Step("onAxisValue120", << SeatPointer, axisType, v >>,
             onAxisValue120(SeatPointer, axisType, v))
ScrollFrame ==
    Step("onFrame", << SeatPointer >>, onFrame(SeatPointer)) /\ PanInBound(contentState')

NextAxes ==
    \/ MainLoopRender
    \/ EvCapabilities
    \/ ScrollAxis
    \/ ScrollAxisSource
    \/ ScrollAxisStop
    \/ ScrollAxisDiscrete
    \/ ScrollAxisValue120
    \/ ScrollFrame

SpecAxes == Init /\ [][NextAxes]_vars

\* ---- a wheel session over the range of the int32 step count: counts around
\* 0, the last counts whose product with 120 is an int32, the first whose
\* product is not, and the extremes ----
WheelStepCounts ==
    { INT32_MIN, -(INT32_MAX \div WheelStepFractions) - 1,
      -(INT32_MAX \div WheelStepFractions), -1, 0, 1,
      INT32_MAX \div WheelStepFractions, INT32_MAX \div WheelStepFractions + 1,
      INT32_MAX }
WheelAxisDiscrete ==
    \E axisType \in AxisTypes, n \in WheelStepCounts :
        Step("onAxisDiscrete", << SeatPointer, axisType, n >>,
             onAxisDiscrete(SeatPointer, axisType, n))

NextWheel ==
    \/ MainLoopRender
    \/ EvCapabilities
    \/ WheelAxisDiscrete
    \/ ScrollFrame

SpecWheel == Init /\ [][NextWheel]_vars

\* ---- a session of button presses over every code of the switch; the
\* compositor sends each button event in a frame of its own ----
AnyButton ==
    /\ ~HasValue(eventFrame)
    /\ \E button \in AllButtonCodes, state \in ButtonStates :
           Step("onButton", << SeatPointer, 1, 1, button, state >>,
                onButton(SeatPointer, 1, 1, button, state))
AnyButtonFrame ==
    /\ Step("onFrame", << SeatPointer >>, onFrame(SeatPointer))
    /\ Cardinality(buttonsPressedState') <= MaxButtonsHeld

NextButtons ==
    \/ MainLoopRender
    \/ EvCapabilities
    \/ AnyButton
    \/ AnyButtonFrame

SpecButtons == Init /\ [][NextButtons]_vars

\* ---- a session of a compositor that breaks the frame protocol: events of
\* every kind in any order, commits by either device ----
\* wl_pointer_axis_source: wheel, finger
FaultyAxisSources == {0, 1}
FaultyEnter ==
    \E surface \in Surfaces :
        Step("onEnter", << SeatPointer, 1, surface, Pixels(100), Pixels(200) >>,
             onEnter(SeatPointer, 1, surface, Pixels(100), Pixels(200)))
FaultyLeave ==
    Step("onLeave", << SeatPointer, 1, OtherSurface >>,
         onLeave(SeatPointer, 1, OtherSurface))
FaultyButton ==
    \E button \in {BTN_LEFT, BTN_UNMAPPED} :
        Step("onButton", << SeatPointer, 1, 1, button, WL_POINTER_BUTTON_STATE_PRESSED >>,
             onButton(SeatPointer, 1, 1, button, WL_POINTER_BUTTON_STATE_PRESSED))
FaultyAxis ==
    \E value \in AxisValues :
        Step("onAxis", << SeatPointer, 1, WL_POINTER_AXIS_HORIZONTAL_SCROLL, value >>,
             onAxis(SeatPointer, 1, WL_POINTER_AXIS_HORIZONTAL_SCROLL, value))
FaultyAxisSource ==
    \E axisSource \in FaultyAxisSources :
        Step("onAxisSource", << SeatPointer, axisSource >>,
             onAxisSource(SeatPointer, axisSource))
FaultyAxisStop ==
    \E evTimestampMs \in {1, 2} :
        Step("onAxisStop", << SeatPointer, evTimestampMs, WL_POINTER_AXIS_HORIZONTAL_SCROLL >>,
             onAxisStop(SeatPointer, evTimestampMs, WL_POINTER_AXIS_HORIZONTAL_SCROLL))
FaultyAxisDiscrete ==
    Step("onAxisDiscrete", << SeatPointer, WL_POINTER_AXIS_HORIZONTAL_SCROLL, 1 >>,
         onAxisDiscrete(SeatPointer, WL_POINTER_AXIS_HORIZONTAL_SCROLL, 1))
FaultyAxisValue120 ==
    Step("onAxisValue120",
         << SeatPointer, WL_POINTER_AXIS_HORIZONTAL_SCROLL, 2 * WheelStepFractions >>,
         onAxisValue120(SeatPointer, WL_POINTER_AXIS_HORIZONTAL_SCROLL,
                        2 * WheelStepFractions))
FaultyFrame ==
    \E pd \in Devices : Step("onFrame", << pd >>, onFrame(pd)) /\ PanInBound(contentState')

NextAnomalies ==
    \/ MainLoopRender
    \/ EvCapabilities
    \/ FaultyEnter
    \/ FaultyLeave
    \/ PtrForeignMotion
    \/ FaultyButton
    \/ FaultyAxis
    \/ FaultyAxisSource
    \/ FaultyAxisStop
    \/ FaultyAxisDiscrete
    \/ FaultyAxisValue120
    \/ FaultyFrame

SpecAnomalies == Init /\ [][NextAnomalies]_vars

\* ---- the same session with a second wl_pointer whose axis events reach the
\* listener: the callbacks take the device as an argument (1047-1052) ----
ForeignAxis ==
    \E value \in AxisValues :
        Step("onAxis", << ForeignPointer, 1, WL_POINTER_AXIS_VERTICAL_SCROLL, value >>,
             onAxis(ForeignPointer, 1, WL_POINTER_AXIS_VERTICAL_SCROLL, value))

NextDevices ==
    \/ NextAnomalies
    \/ ForeignAxis

SpecDevices == Init /\ [][NextDevices]_vars

\* ---- one frame of a scrolling session: every event of the axis family for
\* either axis, each with two values, and no commit ----
AnyAxisStop ==
    \E axisType \in AxisTypes, evTimestampMs \in StopTimestamps :
        Step("onAxisStop", << SeatPointer, evTimestampMs, axisType >>,
             onAxisStop(SeatPointer, evTimestampMs, axisType))

NextAxisFields ==
    \/ MainLoopRender
    \/ EvCapabilities
    \/ ScrollAxis
    \/ FaultyAxisSource
    \/ AnyAxisStop
    \/ ScrollAxisDiscrete
    \/ ScrollAxisValue120

SpecAxisFields == Init /\ [][NextAxisFields]_vars

\* ---- the rectangular-write primitive against rectangles of every shape:
\* inside, across and outside the surface, empty and unbounded; one call
\* between two submissions ----
RectCoordinates == (0 .. (IF width > height THEN width ELSE height) + 1) \cup {SIZE_MAX}
DrawRect ==
    /\ ~Called("drawVia")
    /\ \E rectX \in RectCoordinates, rectY \in RectCoordinates,
          rectWidth \in RectCoordinates, rectHeight \in RectCoordinates :
           Step("drawVia", << rectX, rectY, rectWidth, rectHeight >>,
                drawVia(rectX, rectY, rectWidth, rectHeight))

NextDraw ==
    \/ MainLoopRender
    \/ DrawRect

SpecDraw == Init /\ [][NextDraw]_vars

\* ---- main() from its first statement, Steps 1 to 6 one acquisition at a
\* time, then the whole program as in Spec, the registration of the frame
\* callback failing or not ----
MainAcquire ==
    \E resource \in StartupResources :
        \E result \in AcquisitionResults(resource) :
            Step("Acquire", << resource, result >>, Acquire(resource, result))
MainRestOfStartup == Step("RestOfStartup", <<>>, RestOfStartup)
MainLoopRenderFails ==
    \E failing \in { "wl_surface_frame", "wl_callback_add_listener" } :
        Step("LoopRenderFails", << failing >>, LoopRenderFails(failing))

NextLifecycle ==
    \/ MainAcquire
    \/ MainRestOfStartup
    \/ MainLoopRenderFails
    \/ Next

SpecLifecycle == InitMain /\ [][NextLifecycle]_vars

\* ---- renderings of a panning session, each recorded ----
\* the pixels of the sub-buffer behind the wl_buffer buffer, first byte first
SubBufferPixels(shared, buffer) ==
    [ byte \in 0 .. width * bytesPerPixel * height - 1 |->
        shared[SideBufferOffset(buffer) + byte] ]
RecordedLoopRender ==
    /\ StepOf("LoopRender", <<>>, LoopRender)
    /\ renderedImages' = renderedImages \cup
           { [ number |-> callbacksCreated + 1,
               state |-> contentState,
               pendingBufferIdx |-> pendingBufferIdx,
               before |-> SubBufferPixels(surfaceSharedBuffer, getPendingWLSideBuffer),
               pixels |-> SubBufferPixels(surfaceSharedBuffer', getPendingWLSideBuffer) ] }

NextRender ==
    \/ RecordedLoopRender
    \/ MainLoopSkip
    \/ EvDispatchReturn
    \/ EvSurfaceFrame
    \/ EvCapabilities
    \/ PtrEnter
    \/ PtrMotion
    \/ PtrButton
    \/ PtrFrame

SpecRender == Init /\ [][NextRender]_vars

\* ---- main() from its first statement: the start-up, then the whole
\* program as in Spec ----
MainStartupFails ==
    \E outcome \in Outcomes \ {"normal exit"} :
        Step("StartupFails", << outcome >>, StartupFails(outcome))
MainStartupSucceeds == Step("StartupSucceeds", <<>>, StartupSucceeds)

NextMain ==
    \/ MainStartupFails
    \/ MainStartupSucceeds
    \/ Next

SpecMain == InitMain /\ [][NextMain]_vars

\* ---- the functions of ContentState and of the renderer, each called on
\* its own with arguments of every kind ----
CallSrcCellColumn ==
    \E srcXGlobal \in -MaxCoordinate .. MaxCoordinate :
        Step("srcCellColumn", << srcXGlobal >>, Returns(srcCellColumn(srcXGlobal)))

\* states of every zoom, centre and offset the program's integers carry
SampleOffsets == { -Pixels(MaxPanPixels), -1, 0, Pixels(1) }
SampleZooms == { Pixels(1), Pixels(1) + Pixels(1) \div 4, Pixels(4) \div 5 }
SampleCenters == { 0, Pixels(1) }
SampleStates ==
    [ viewportOffsetX : SampleOffsets,
      viewportOffsetY : SampleOffsets,
      viewportZoom : SampleZooms,
      viewportZoomCenterLocalX : SampleCenters,
      viewportZoomCenterLocalY : SampleCenters ]
CallRestoredZoom ==
    \E s \in SampleStates :
        Step("restoredZoom", << s >>, Returns(restoredZoom(s)))

\* doubles near zero and doubles around 2^53, where neighbouring doubles are
\* 2 apart, of either sign
TwoTo53 == [ hi |-> DoubleLimb \div 2, lo |-> 0 ]
SampleDoubles ==
    { ToDouble(-Pixels(1)), ToDouble(0), ToDouble(1), ToDouble(Pixels(MaxPanPixels)),
      TwoTo53, [ hi |-> -(DoubleLimb \div 2), lo |-> 0 ],
      [ hi |-> DoubleLimb \div 2 - 1, lo |-> DoubleLimb - 2 ] }
SampleDeltas == { ToDouble(-1), ToDouble(0), ToDouble(1), ToDouble(Pixels(1)) }
SampleDoubleStates ==
    [ viewportOffsetX : SampleDoubles,
      viewportOffsetY : { ToDouble(0), TwoTo53 },
      viewportZoom : { ToDouble(Pixels(1)), ToDouble(Pixels(1) + Pixels(1) \div 4) },
      viewportZoomCenterLocalX : { ToDouble(0), ToDouble(Pixels(1)) },
      viewportZoomCenterLocalY : { ToDouble(0) } ]
CallMovedFor ==
    \E s \in SampleDoubleStates, offsetX \in SampleDeltas, offsetY \in SampleDeltas :
        Step("movedFor", << s, offsetX, offsetY >>,
             Returns(movedForDouble(s, offsetX, offsetY)))

NextAlgebra ==
    \/ CallSrcCellColumn
    \/ CallRestoredZoom
    \/ CallMovedFor

SpecAlgebra == Init /\ [][NextAlgebra]_vars

(***************************************************************************)
(* Properties                                                              *)
(***************************************************************************)
\* the interpreter's part of the state
interpreterVars == << positionOnMainWindowSurface, buttonsPressedState,
                      contentState, mustBeRedrawn >>
\* the next step is the callback op
Calling(op) == lastCall'.op = op
NextArg(i) == lastCall'.args[i]
\* the next step is a frame signal that hands a frame of this variant to the
\* interpreter
Committing(kind) ==
    /\ Calling("onFrame")
    /\ handled' # <<>>
    /\ handled'[1].kind = kind

\* C1: in every reachable state at most one wl_surface::frame callback is
\* registered and not yet signalled, so no submission is made while an
\* earlier registration is outstanding
C1_AtMostOneOutstanding == Cardinality(registered) <= 1

\* a second registration is outstanding and a pointer frame has asked for
\* another redraw meanwhile
C1_Witness ==
    /\ callbacksCreated >= 2
    /\ registered = {pendingCallback}
    /\ mustBeRedrawn
    /\ ~ContentStateEq(contentState, lastRenderedState)

\* C2: a wl_callback::done whose callback is not the outstanding one changes
\* nothing of the scheduler; the gate opens only on the done of the
\* outstanding callback, which also clears the registration
C2_OnlyMatchingSignalOpensGate ==
    [][ /\ Calling("onSurfaceFrame") =>
             IF NextArg(1) = pendingCallback
               THEN readyToBeRedrawn' /\ pendingCallback' = NullPtr
               ELSE UNCHANGED << readyToBeRedrawn, pendingCallback, mustBeRedrawn,
                                 pendingBufferIdx, lastRenderedState, contentState >>
        /\ (~readyToBeRedrawn /\ readyToBeRedrawn') =>
             /\ Calling("onSurfaceFrame")
             /\ pendingCallback # NullPtr
             /\ NextArg(1) = pendingCallback
      ]_vars

\* the done of the first callback is delivered again while the second one is
\* outstanding
C2_Witness ==
    /\ Called("onSurfaceFrame")
    /\ pendingCallback # NullPtr
    /\ Arg(1) # pendingCallback
    /\ ~readyToBeRedrawn

\* C3: a frame signal from the device that started the pending frame, that
\* device being the bound one, empties the slot and hands the frame to the
\* interpreter once, to the overload of its variant; no step invokes the
\* interpreter more than once and only a frame signal invokes it
C3_CommitHandsFrameOnce ==
    [][ /\ ( /\ Calling("onFrame")
             /\ HasValue(eventFrame)
             /\ ValueOf(eventFrame).sourceDev = NextArg(1)
             /\ NextArg(1) = wlDevice )
           => LET info == ValueOf(eventFrame).info
                  after == [ position |-> positionOnMainWindowSurface',
                             buttons |-> buttonsPressedState',
                             content |-> contentState',
                             redraw |-> mustBeRedrawn' ]
              IN  /\ eventFrame' = Nothing
                  /\ handled' = << info >>
                  /\ info.kind = "Enter" => after = handleFrameEnter(info)
                  /\ info.kind = "Leave" => after = handleFrameLeave(info)
                  /\ info.kind = "Motion" => after = handleFrameMotion(info)
                  /\ info.kind = "Button" => after = handleFrameButton(info)
                  /\ info.kind = "Axes" => after = handleFrameAxes(info)
        /\ Len(handled') <= 1
        /\ handled' # <<>> => Calling("onFrame")
      ]_vars

\* a Motion frame of the bound device has just been committed
C3_Witness ==
    /\ Called("onFrame")
    /\ Arg(1) = wlDevice
    /\ HasValue(lastCall.pending)
    /\ handled = << ValueOf(lastCall.pending).info >>
    /\ handled[1].kind = "Motion"
    /\ eventFrame = Nothing

\* C4: a frame signal that finds no pending frame invokes nothing and
\* changes nothing
C4_EmptyCommitIsNoOp ==
    [][ (Calling("onFrame") /\ ~HasValue(eventFrame))
          => /\ handled' = <<>>
             /\ UNCHANGED << eventFrame, positionOnMainWindowSurface,
                             buttonsPressedState, contentState, mustBeRedrawn >>
      ]_vars

\* a frame signal has found the slot empty, with the pointer on the surface
\* and the primary button down
C4_Witness ==
    /\ Called("onFrame")
    /\ ~HasValue(lastCall.pending)
    /\ HasValue(positionOnMainWindowSurface)
    /\ buttonsPressedState = {IDX_LMB}

\* C5: a frame signal that finds a pending frame started by another device
\* than the signal's, or by another device than the bound one, empties the
\* slot without invoking the interpreter
C5_MismatchDiscardsFrame ==
    [][ ( /\ Calling("onFrame")
          /\ HasValue(eventFrame)
          /\ \/ ValueOf(eventFrame).sourceDev # NextArg(1)
             \/ ValueOf(eventFrame).sourceDev # wlDevice )
          => /\ eventFrame' = Nothing
             /\ handled' = <<>>
             /\ UNCHANGED << positionOnMainWindowSurface, buttonsPressedState,
                             contentState, mustBeRedrawn >>
      ]_vars

\* a frame started and signalled by a device that is not the bound one has
\* been discarded
C5_Witness ==
    /\ Called("onFrame")
    /\ HasValue(lastCall.pending)
    /\ ValueOf(lastCall.pending).sourceDev = Arg(1)
    /\ Arg(1) # wlDevice
    /\ eventFrame = Nothing
    /\ handled = <<>>

\* the frame a frame-starting event carries in its arguments
InfoOfStart(ev) ==
    CASE ev.op = "onEnter" ->
           [ kind |-> "Enter", evSerial |-> ev.args[2], surfaceEntered |-> ev.args[3],
             posX |-> WlFixedToDouble(ev.args[4]),
             posY |-> WlFixedToDouble(ev.args[5]) ]
      [] ev.op = "onLeave" ->
           [ kind |-> "Leave", evSerial |-> ev.args[2], surfaceLeft |-> ev.args[3] ]
      [] ev.op = "onMotion" ->
           [ kind |-> "Motion", evTimestampMs |-> ev.args[2],
             surfaceLocalX |-> WlFixedToDouble(ev.args[3]),
             surfaceLocalY |-> WlFixedToDouble(ev.args[4]) ]
      [] ev.op = "onButton" ->
           [ kind |-> "Button", evSerial |-> ev.args[2], evTimestampMs |-> ev.args[3],
             button |-> ev.args[4], state |-> ev.args[5] ]

\* C6: while a frame is pending, an enter, leave, motion or button event is
\* dropped and leaves the pending frame as it is; a committed frame of a burst
\* that one of these events began carries the data of that first event
C6_FirstSubEventWins ==
    [][ /\ (lastCall'.op \in FrameStartingEvents /\ HasValue(eventFrame))
             => /\ eventFrame' = eventFrame
                /\ handled' = <<>>
                /\ UNCHANGED interpreterVars
        /\ ( /\ Calling("onFrame")
             /\ handled' # <<>>
             /\ HasValue(firstOfBurst)
             /\ ValueOf(firstOfBurst).op \in FrameStartingEvents )
             => handled' = << InfoOfStart(ValueOf(firstOfBurst)) >>
      ]_vars

\* a motion event has arrived while a Motion frame with other coordinates was
\* pending, and the frame is still the first one
C6_Witness ==
    /\ Called("onMotion")
    /\ HasValue(lastCall.pending)
    /\ ValueOf(lastCall.pending).info.kind = "Motion"
    /\ ValueOf(lastCall.pending).info.surfaceLocalX # WlFixedToDouble(Arg(3))
    /\ eventFrame = lastCall.pending
    /\ HasValue(firstOfBurst)
    /\ InfoOfStart(ValueOf(firstOfBurst)) = ValueOf(eventFrame).info

\* the Axes frame a sub-event of the axis family works on: the pending one,
\* or an empty one of device pd when none is pending
AxesView(frameOpt, pd) ==
    IF HasValue(frameOpt) THEN ValueOf(frameOpt)
                          ELSE [sourceDev |-> pd, info |-> EmptyAxes]
\* an axis of such a frame, an absent one read as an axis with no field set
AxisView(frame, axisType) ==
    LET axis == IF axisType = WL_POINTER_AXIS_VERTICAL_SCROLL
                  THEN frame.info.vertical ELSE frame.info.horizontal
    IN  ValueOr(axis, EmptyAxis)
OtherAxisType(axisType) ==
    IF axisType = WL_POINTER_AXIS_VERTICAL_SCROLL
      THEN WL_POINTER_AXIS_HORIZONTAL_SCROLL ELSE WL_POINTER_AXIS_VERTICAL_SCROLL

C8_MotionDrags ==
    [][ /\ Committing("Motion")
           => LET x == handled'[1].surfaceLocalX
                  y == handled'[1].surfaceLocalY
                  drags == /\ HasValue(positionOnMainWindowSurface)
                           /\ buttonsPressedState = {IDX_LMB}
                           /\ \/ x # ValueOf(positionOnMainWindowSurface).x
                              \/ y # ValueOf(positionOnMainWindowSurface).y
              IN  /\ IF drags
                       THEN LET px == ValueOf(positionOnMainWindowSurface).x
                                py == ValueOf(positionOnMainWindowSurface).y
                            IN  /\ contentState' =
                                     movedFor(contentState, -(x - px), -(y - py))
                                /\ mustBeRedrawn'
                       ELSE UNCHANGED << contentState, mustBeRedrawn >>
                  /\ positionOnMainWindowSurface' = Some([x |-> x, y |-> y])
                  /\ UNCHANGED buttonsPressedState
        /\ (Committing("Enter") /\ handled'[1].surfaceEntered = MainSurface)
           => positionOnMainWindowSurface' =
                Some([x |-> handled'[1].posX, y |-> handled'[1].posY])
      ]_vars

\* after Enter(100, 200) and a press of the primary button, Motion(110, 205)
\* has been committed: the content is moved for (-10, -5)
C8_Witness ==
    /\ Called("onFrame")
    /\ handled # <<>>
    /\ handled[1].kind = "Motion"
    /\ handled[1].surfaceLocalX = Pixels(110)
    /\ handled[1].surfaceLocalY = Pixels(205)
    /\ buttonsPressedState = {IDX_LMB}
    /\ contentState = movedFor(DefaultContentState, -Pixels(10), -Pixels(5))
    /\ mustBeRedrawn

\* C9: a committed Axes frame pans by (h, v), an absent axis or value counting
\* as 0, and asks for a redraw when h or v is not 0, else content and redraw
\* flag stay; it never changes the pointer position or the pressed buttons
C9_AxesScroll ==
    [][ Committing("Axes")
          => LET axes == [info |-> handled'[1]]
                 h == ValueOr(AxisView(axes, WL_POINTER_AXIS_HORIZONTAL_SCROLL).value, 0)
                 v == ValueOr(AxisView(axes, WL_POINTER_AXIS_VERTICAL_SCROLL).value, 0)
             IN  /\ IF h # 0 \/ v # 0
                      THEN /\ contentState' = movedFor(contentState, h, v)
                           /\ mustBeRedrawn'
                      ELSE UNCHANGED << contentState, mustBeRedrawn >>
                 /\ UNCHANGED << positionOnMainWindowSurface, buttonsPressedState >>
      ]_vars

\* an Axes frame with a horizontal length and no vertical axis has been
\* committed while the pointer was on the surface with the primary button down
C9_Witness ==
    /\ Called("onFrame")
    /\ handled # <<>>
    /\ handled[1].kind = "Axes"
    /\ ~HasValue(handled[1].vertical)
    /\ HasValue(handled[1].horizontal)
    /\ ValueOf(handled[1].horizontal).value = Some(Pixels(10))
    /\ contentState = movedFor(DefaultContentState, Pixels(10), 0)
    /\ mustBeRedrawn
    /\ HasValue(positionOnMainWindowSurface)
    /\ buttonsPressedState = {IDX_LMB}

\* the canonical order of the button codes: primary, secondary, middle, side,
\* extra, forward, back, task, then the ten generic buttons
CanonicalButtons ==
    << BTN_LEFT, BTN_RIGHT, BTN_MIDDLE, BTN_SIDE, BTN_EXTRA, BTN_FORWARD, BTN_BACK,
       BTN_TASK, BTN_0, BTN_1, BTN_2, BTN_3, BTN_4, BTN_5, BTN_6, BTN_7, BTN_8, BTN_9 >>
\* the canonical index of a code, -1 for a code that is not in the order
CanonicalIndex(code) ==
    IF \E i \in 1 .. Len(CanonicalButtons) : CanonicalButtons[i] = code
      THEN (CHOOSE i \in 1 .. Len(CanonicalButtons) : CanonicalButtons[i] = code) - 1
      ELSE -1

\* C10: a committed Button frame of a mapped code sets (pressed) or clears
\* (released) the bit of the code's canonical index, which is below 32, and
\* no other bit; of an unmapped code it changes no bit; content, pointer
\* position and redraw flag stay
C10_ButtonSetsItsBit ==
    [][ Committing("Button")
          => LET idx == CanonicalIndex(handled'[1].button)
                 pressed == handled'[1].state = WL_POINTER_BUTTON_STATE_PRESSED
             IN  /\ idx < ButtonsBitsetSize
                 /\ buttonsPressedState' =
                      IF idx < 0 THEN buttonsPressedState
                      ELSE IF pressed THEN buttonsPressedState \cup {idx}
                      ELSE buttonsPressedState \ {idx}
                 /\ UNCHANGED << contentState, positionOnMainWindowSurface,
                                 mustBeRedrawn >>
      ]_vars

\* BTN_9 has been pressed while the primary button was down
C10_Witness ==
    /\ Called("onFrame")
    /\ handled # <<>>
    /\ handled[1].kind = "Button"
    /\ handled[1].button = BTN_9
    /\ handled[1].state = WL_POINTER_BUTTON_STATE_PRESSED
    /\ buttonsPressedState = {IDX_LMB, IDX_OTHERS_BEGIN + 14}

\* C11: a committed Enter frame for the main window's surface makes the
\* position the frame's (x, y) and clears every pressed button; one for any
\* other surface leaves position, pressed buttons, content and redraw flag
C11_EnterTracksPointer ==
    [][ Committing("Enter")
          => IF handled'[1].surfaceEntered = MainSurface
               THEN /\ positionOnMainWindowSurface' =
                         Some([x |-> handled'[1].posX, y |-> handled'[1].posY])
                    /\ buttonsPressedState' = {}
               ELSE UNCHANGED << positionOnMainWindowSurface, buttonsPressedState,
                                 contentState, mustBeRedrawn >>
      ]_vars

\* an Enter frame for the main surface has been committed while the primary
\* button was down and the pointer was known at another place
C11_Witness ==
    /\ Called("onFrame")
    /\ handled # <<>>
    /\ handled[1].kind = "Enter"
    /\ handled[1].surfaceEntered = MainSurface
    /\ lastCall.buttons = {IDX_LMB}
    /\ lastCall.position = Some([x |-> Pixels(100), y |-> Pixels(200)])
    /\ positionOnMainWindowSurface = Some([x |-> Pixels(110), y |-> Pixels(205)])
    /\ buttonsPressedState = {}

\* C12: a committed Leave frame for the main window's surface clears every
\* pressed button and makes the position absent; one for any other surface
\* leaves position, pressed buttons, content and redraw flag
C12_LeaveForgetsPointer ==
    [][ Committing("Leave")
          => IF handled'[1].surfaceLeft = MainSurface
               THEN /\ buttonsPressedState' = {}
                    /\ ~HasValue(positionOnMainWindowSurface')
               ELSE UNCHANGED << positionOnMainWindowSurface, buttonsPressedState,
                                 contentState, mustBeRedrawn >>
      ]_vars

\* a Leave frame for the main surface has been committed while two buttons
\* were down and the position was known
C12_Witness ==
    /\ Called("onFrame")
    /\ handled # <<>>
    /\ handled[1].kind = "Leave"
    /\ handled[1].surfaceLeft = MainSurface
    /\ lastCall.buttons = {IDX_LMB, IDX_RMB}
    /\ HasValue(lastCall.position)
    /\ ~HasValue(positionOnMainWindowSurface)
    /\ buttonsPressedState = {}

\* the step is a sub-event that does not fit the pending frame: an enter,
\* leave, motion or button event while any frame is pending, or an event of
\* the axis family while a frame of another kind is pending
IncompatibleSubEvent ==
    /\ HasValue(eventFrame)
    /\ \/ lastCall'.op \in FrameStartingEvents
       \/ /\ lastCall'.op \in AxisFamilyEvents
          /\ ValueOf(eventFrame).info.kind # "Axes"

\* the step is an event of the axis family for a field the pending Axes frame
\* already has
DuplicateAxesField ==
    /\ HasValue(eventFrame)
    /\ ValueOf(eventFrame).info.kind = "Axes"
    /\ LET frame == ValueOf(eventFrame)
       IN  \/ Calling("onAxis") /\ HasValue(AxisView(frame, NextArg(3)).value)
           \/ Calling("onAxisStop")
                /\ HasValue(AxisView(frame, NextArg(3)).stoppedTimestampMs)
           \/ Calling("onAxisSource") /\ HasValue(frame.info.axisSource)
           \/ (Calling("onAxisDiscrete") \/ Calling("onAxisValue120"))
                /\ HasValue(AxisView(frame, NextArg(2)).one120thFractionsOfWheelStep)

\* the step is a commit with nothing pending, by or for a device that is not
\* the bound one, of an Enter or Leave frame for a surface that is not the
\* main window's, or of a Button frame with an unmapped code
AnomalousCommit ==
    /\ Calling("onFrame")
    /\ \/ ~HasValue(eventFrame)
       \/ NextArg(1) # ValueOf(eventFrame).sourceDev
       \/ ValueOf(eventFrame).sourceDev # wlDevice
       \/ LET info == ValueOf(eventFrame).info
          IN  \/ info.kind = "Enter" /\ info.surfaceEntered # MainSurface
              \/ info.kind = "Leave" /\ info.surfaceLeft # MainSurface
              \/ info.kind = "Button" /\ CanonicalIndex(info.button) < 0

\* what no anomaly touches
anomalyProofVars ==
    << contentState, lastRenderedState, pendingBufferIdx, mustBeRedrawn, shouldExit,
       pc, exitCode, positionOnMainWindowSurface, buttonsPressedState,
       readyToBeRedrawn, wlDevice >>

\* C13: a protocol anomaly is not fatal and drops only the offending
\* sub-event or frame: a sub-event that does not fit the pending frame or
\* repeats one of its fields leaves the pending frame as it is, an anomalous
\* commit empties the slot; neither changes content, last rendered state,
\* buffer index, redraw flag, pointer position or pressed buttons, sets the
\* exit flag or ends the loop
C13_AnomaliesDropOnlyTheOffender ==
    [][ /\ (IncompatibleSubEvent \/ DuplicateAxesField)
           => /\ eventFrame' = eventFrame
              /\ handled' = <<>>
              /\ UNCHANGED anomalyProofVars
        /\ AnomalousCommit
           => /\ ~HasValue(eventFrame')
              /\ UNCHANGED anomalyProofVars
      ]_vars

\* after a pan and an axis source, a second axis source of another kind has
\* arrived: the frame keeps the first and the loop is still dispatching
C13_Witness ==
    /\ Called("onAxisSource")
    /\ HasValue(lastCall.pending)
    /\ ValueOf(lastCall.pending).info.kind = "Axes"
    /\ HasValue(ValueOf(lastCall.pending).info.axisSource)
    /\ ValueOf(lastCall.pending).info.axisSource # Some(Arg(2))
    /\ eventFrame = lastCall.pending
    /\ contentState # DefaultContentState
    /\ ~shouldExit
    /\ pc = "dispatch"

\* the byte range of the sub-buffer with index idx
SubBufferBytes(idx) ==
    idx * width * height * 4 .. (idx + 1) * width * height * 4 - 1
\* the bytes of the pixels of sub-buffer idx that lie both on the surface and
\* in the rectangle
RectangleBytes(idx, rectX, rectY, rectWidth, rectHeight) ==
    { idx * width * height * 4 + (y * width + x) * 4 + k :
        x \in { c \in 0 .. width - 1 : c >= rectX /\ c - rectX < rectWidth },
        y \in { r \in 0 .. height - 1 : r >= rectY /\ r - rectY < rectHeight },
        k \in 0 .. 3 }

\* C14: the bytes the rectangular-write primitive writes for a rectangle
\* (x, y, width, height) are those of the rectangle's pixels that lie on the
\* surface, in the sub-buffer the buffer index selects: all of them within
\* [idx*W*H*4, (idx+1)*W*H*4), none in the other sub-buffer, and none at
\* all when the origin lies outside the surface; a render writes the whole
\* sub-buffer the index selected
C14_WritesStayInPendingBuffer ==
    /\ Called("drawVia")
         => /\ written = RectangleBytes(pendingBufferIdx, Arg(1), Arg(2), Arg(3), Arg(4))
            /\ written \subseteq SubBufferBytes(pendingBufferIdx)
            /\ written \cap SubBufferBytes(1 - pendingBufferIdx) = {}
            /\ (Arg(1) >= width \/ Arg(2) >= height) => written = {}
    /\ Called("LoopRender") => written = SubBufferBytes(1 - pendingBufferIdx)

\* the primitive has been called for the second sub-buffer with a rectangle
\* that starts on the surface and reaches beyond it
C14_Witness ==
    /\ Called("drawVia")
    /\ pendingBufferIdx = 1
    /\ Arg(1) = 1
    /\ Arg(2) = 1
    /\ Arg(3) = SIZE_MAX
    /\ Arg(4) = height
    /\ written # {}
    /\ written # SubBufferBytes(1)

OutcomeReached == IF Called("StartupFails") THEN Arg(1) ELSE "normal exit"

\* C17: the exit code main() has returned is the exit code of no outcome but
\* the one that has happened, the outcomes being: no compositor, no
\* shared-memory service, no seat, a system error, a generic error, an
\* unknown error, the normal exit
C17_ExitCodesPairwiseDistinct ==
    pc = "done"
      => \A outcome \in Outcomes \ {OutcomeReached} :
            ExitCodeOfOutcome(outcome) # exitCode

\* C18: with cells of 60, the cell index of the virtual coordinate -1 is -1,
\* of 0 is 0, of 59 is 0, of 60 is 1, of -60 is -1 and of -61 is -2.
C18_CellIndexTable ==
    \A case \in { << -1, -1 >>, << 0, 0 >>, << 59, 0 >>, << 60, 1 >>,
                  << -60, -1 >>, << -61, -2 >> } :
        (Called("srcCellColumn") /\ Arg(1) = case[1])
          => returned = Some(case[2])

\* the sum of x and y is a double: operator+ returns it unrounded
AddsExactly(x, y) ==
    DoubleAdd(x, y) = [ hi |-> x.hi + y.hi + (x.lo + y.lo) \div DoubleLimb,
                        lo |-> (x.lo + y.lo) % DoubleLimb ]
\* no addition of s.movedFor(a).movedFor(c) and of s.movedFor(a + c) rounds
AccumulatesExactly(offset, a, c) ==
    /\ AddsExactly(offset, a)
    /\ AddsExactly(DoubleAdd(offset, a), c)
    /\ AddsExactly(a, c)
    /\ AddsExactly(offset, DoubleAdd(a, c))

\* C19 as stated: movedFor(dx, dy) returns the state of the old offset plus
\* (dx, dy) and the old zoom and zoom centre, and for every state s and all
\* a, b, c, d, s.movedFor(a, b).movedFor(c, d) equals s.movedFor(a + c, b + d)
\* field by field.
C19_AccumulatesForAllOffsets ==
    Called("movedFor")
      => LET s == Arg(1)
             a == Arg(2)
             b == Arg(3)
             moved == ValueOf(returned)
         IN  /\ moved.viewportOffsetX = DoubleAdd(s.viewportOffsetX, a)
             /\ moved.viewportOffsetY = DoubleAdd(s.viewportOffsetY, b)
             /\ moved.viewportZoom = s.viewportZoom
             /\ moved.viewportZoomCenterLocalX = s.viewportZoomCenterLocalX
             /\ moved.viewportZoomCenterLocalY = s.viewportZoomCenterLocalY
             /\ \A c \in SampleDeltas, d \in SampleDeltas :
                    ContentStateEq(movedForDouble(moved, c, d),
                                   movedForDouble(s, DoubleAdd(a, c), DoubleAdd(b, d)))

\* C19, amended: movedFor(dx, dy) returns the state of the old offset plus
\* (dx, dy) and the old zoom and zoom centre, and for every state s and all
\* a, b, c, d for which none of the additions of s.movedFor(a, b)
\* .movedFor(c, d) and of s.movedFor(a + c, b + d) rounds, the two are equal
\* field by field.
C19_AccumulatesWhereSumsAreExact ==
    Called("movedFor")
      => LET s == Arg(1)
             a == Arg(2)
             b == Arg(3)
             moved == ValueOf(returned)
         IN  /\ moved.viewportOffsetX = DoubleAdd(s.viewportOffsetX, a)
             /\ moved.viewportOffsetY = DoubleAdd(s.viewportOffsetY, b)
             /\ moved.viewportZoom = s.viewportZoom
             /\ moved.viewportZoomCenterLocalX = s.viewportZoomCenterLocalX
             /\ moved.viewportZoomCenterLocalY = s.viewportZoomCenterLocalY
             /\ \A c \in SampleDeltas, d \in SampleDeltas :
                    (/\ AccumulatesExactly(s.viewportOffsetX, a, c)
                     /\ AccumulatesExactly(s.viewportOffsetY, b, d))
                      => ContentStateEq(movedForDouble(moved, c, d),
                                        movedForDouble(s, DoubleAdd(a, c),
                                                       DoubleAdd(b, d)))
\* a state of non-zero offsets, a zoom other than 1.0 and a non-zero zoom
\* centre has been moved by non-zero offsets, and a second move by non-zero
\* offsets adds without rounding
C19_Witness ==
    /\ Called("movedFor")
    /\ Arg(1).viewportOffsetX = ToDouble(Pixels(MaxPanPixels))
    /\ Arg(1).viewportOffsetY = TwoTo53
    /\ Arg(1).viewportZoom # ToDouble(Pixels(1))
    /\ Arg(1).viewportZoomCenterLocalX # ToDouble(0)
    /\ Arg(2) = ToDouble(Pixels(1))
    /\ Arg(3) = ToDouble(-1)
    /\ ValueOf(returned).viewportOffsetX = ToDouble(Pixels(MaxPanPixels + 1))
    /\ AccumulatesExactly(Arg(1).viewportOffsetX, Arg(2), ToDouble(1))
    /\ AccumulatesExactly(Arg(1).viewportOffsetY, Arg(3), ToDouble(-1))

\* C20: for every ContentState s, s.restoredZoom() has the zoom 1.0 and the
\* offset and the zoom centre of s.
C20_RestoredZoomKeepsTheRest ==
    Called("restoredZoom")
      => LET s == Arg(1)
             restored == ValueOf(returned)
         IN  /\ restored.viewportZoom = Pixels(1)
             /\ restored.viewportOffsetX = s.viewportOffsetX
             /\ restored.viewportOffsetY = s.viewportOffsetY
             /\ restored.viewportZoomCenterLocalX = s.viewportZoomCenterLocalX
             /\ restored.viewportZoomCenterLocalY = s.viewportZoomCenterLocalY
\* the zoom of a zoomed state with a non-zero offset and a non-zero zoom
\* centre has been restored
C20_Witness ==
    /\ Called("restoredZoom")
    /\ Arg(1).viewportZoom # Pixels(1)
    /\ Arg(1).viewportOffsetX # 0
    /\ Arg(1).viewportOffsetY # 0
    /\ Arg(1).viewportZoomCenterLocalX # 0
    /\ Arg(1).viewportZoomCenterLocalY # 0
    /\ ValueOf(returned).viewportZoom = Pixels(1)

\* some field of the current ContentState differs from the last rendered one
ContentDiffersFieldWise ==
    \E field \in DOMAIN contentState : contentState[field] # lastRenderedState[field]

RequestPosition(rs, request) ==
    CHOOSE i \in 1 .. Len(rs) : rs[i].request = request
\* the last step made the call named request exactly once
RequestedOnce(rs, request) ==
    Cardinality({ i \in 1 .. Len(rs) : rs[i].request = request }) = 1

\* C22: within every submission the operations happen in the order render
\* into the pending sub-buffer, attach that sub-buffer, mark full-surface
\* damage, commit; the buffer attached is the one just rendered, and the
\* index is toggled and lastRenderedState recorded only after the commit.
C22_RenderAttachDamageCommit ==
    [][ Calling("LoopRender")
          => LET rs == requests'
                 render == RequestPosition(rs, "renderMainWindow")
                 attach == RequestPosition(rs, "wl_surface_attach")
                 damage == RequestPosition(rs, "wl_surface_damage_buffer")
                 commit == RequestPosition(rs, "wl_surface_commit")
             IN  /\ \A request \in { "renderMainWindow", "wl_surface_attach",
                                     "wl_surface_damage_buffer", "wl_surface_commit" } :
                        RequestedOnce(rs, request)
                 /\ render < attach /\ attach < damage /\ damage < commit
                 \* rendered into the sub-buffer that was pending, ...
                 /\ rs[render].args[1] = getSurfaceBufferOffsetForIdx(pendingBufferIdx)
                 /\ written' # {}
                 /\ written' \subseteq SubBufferBytes(pendingBufferIdx)
                 \* ... attached the wl_buffer of that sub-buffer, ...
                 /\ SideBufferOffset(rs[attach].args[1]) = rs[render].args[1]
                 /\ rs[damage].args = << 0, 0, width, height >>
                 /\ surfaceBuffer' = rs[attach].args[1]
                 \* ... and only then moved on to the other sub-buffer and
                 \* recorded the state rendered
                 /\ pendingBufferIdx' # pendingBufferIdx
                 /\ lastRenderedState' = rs[render].args[2] ]_vars
\* the second submission: a panned state has been rendered into the
\* second sub-buffer and that buffer handed over
C22_Witness ==
    /\ Called("LoopRender")
    /\ Len(requests) = 6
    /\ surfaceBuffer = SurfaceWLSideBuffer2
    /\ lastRenderedState # DefaultContentState
    /\ pendingBufferIdx = 0

\* C23: the buffer index toggles exactly once per completed submission and
\* at no other time, so consecutive submissions hand over alternating
\* sub-buffers and every render writes the sub-buffer that the submission
\* before it did not hand over.
C23_IndexTogglesPerSubmission ==
    [][ /\ (pendingBufferIdx' # pendingBufferIdx) <=> Calling("LoopRender")
        /\ Calling("LoopRender")
              => /\ pendingBufferIdx' = 1 - pendingBufferIdx
                 /\ surfaceBuffer' \in { SurfaceWLSideBuffer1, SurfaceWLSideBuffer2 }
                 /\ surfaceBuffer' # surfaceBuffer
                 /\ written' # {}
                 /\ surfaceBuffer # NullPtr
                       => \A offset \in written' :
                             \/ offset < SideBufferOffset(surfaceBuffer)
                             \/ offset >= SideBufferOffset(surfaceBuffer)
                                            + width * bytesPerPixel * height ]_vars
\* the third submission has handed over the first sub-buffer again, after
\* the second sub-buffer
C23_Witness ==
    /\ Called("LoopRender")
    /\ callbacksCreated = 3
    /\ surfaceBuffer = SurfaceWLSideBuffer1
    /\ pendingBufferIdx = 1
    /\ \A offset \in written : offset < SideBufferOffset(SurfaceWLSideBuffer2)

\* the fields of an Axes frame: those of either axis and the frame's source
AxisFieldNames ==
    { "launchedTimestampMs", "value", "stoppedTimestampMs",
      "one120thFractionsOfWheelStep", "relativeDirectionType" }
AxesFrameFields == (AxisTypes \X AxisFieldNames) \cup { << -1, "axisSource" >> }
FieldOf(frame, field) ==
    IF field[2] = "axisSource" THEN frame.info.axisSource
                               ELSE AxisView(frame, field[1])[field[2]]
\* the step is an event of the axis family
AxisFamilyCall == lastCall'.op \in AxisFamilyEvents
\* the field by which its handler decides whether the frame has it already
DecidingField ==
    CASE Calling("onAxis") -> << NextArg(3), "value" >>
      [] Calling("onAxisStop") -> << NextArg(3), "stoppedTimestampMs" >>
      [] Calling("onAxisSource") -> << -1, "axisSource" >>
      [] OTHER -> << NextArg(2), "one120thFractionsOfWheelStep" >>
\* the fields the event carries, each with its value
CarriedFields ==
    CASE Calling("onAxis") -> { << << NextArg(3), "value" >>, NextArg(4) >>,
                                << << NextArg(3), "launchedTimestampMs" >>, NextArg(2) >> }
      [] Calling("onAxisStop") -> { << << NextArg(3), "stoppedTimestampMs" >>, NextArg(2) >> }
      [] Calling("onAxisSource") -> { << << -1, "axisSource" >>, NextArg(2) >> }
      [] Calling("onAxisDiscrete") ->
           { << << NextArg(2), "one120thFractionsOfWheelStep" >>, 120 * NextArg(3) >> }
      [] OTHER -> { << << NextArg(2), "one120thFractionsOfWheelStep" >>, NextArg(3) >> }

\* C24: an event of the axis family starts a new Axes frame when no frame is
\* pending, merges into the pending frame when an Axes frame is pending, and
\* is dropped, the pending frame staying as it is, when an Enter, Leave,
\* Motion or Button frame is pending.
C24_AxisEventStartsMergesOrDrops ==
    [][ AxisFamilyCall
          => IF HasValue(eventFrame) /\ ValueOf(eventFrame).info.kind # "Axes"
               THEN eventFrame' = eventFrame
               ELSE /\ HasValue(eventFrame')
                    /\ ValueOf(eventFrame').info.kind = "Axes"
                    /\ LET before == AxesView(eventFrame, NextArg(1))
                           after == ValueOf(eventFrame')
                       IN  /\ after.sourceDev = before.sourceDev
                           /\ \A carried \in CarriedFields :
                                 FieldOf(after, carried[1]) =
                                   IF HasValue(FieldOf(before, DecidingField))
                                     THEN FieldOf(before, carried[1])
                                     ELSE Some(carried[2])
                           /\ ~HasValue(eventFrame)
                                 => \A field \in AxesFrameFields :
                                       \/ \E carried \in CarriedFields : carried[1] = field
                                       \/ ~HasValue(FieldOf(after, field)) ]_vars
\* an axis_stop event has arrived while a Button frame was pending, and the
\* Button frame is still the pending frame
C24_Witness ==
    /\ Called("onAxisStop")
    /\ HasValue(lastCall.pending)
    /\ ValueOf(lastCall.pending).info.kind = "Button"
    /\ eventFrame = lastCall.pending

\* C25: within a pending Axes frame the first event that sets a field wins:
\* an event for a field that is already set (the magnitude with its
\* timestamp, the stop timestamp or the step count of either axis, or the
\* frame's source) changes no field of the frame, and an event for a field
\* that is not yet set sets it and changes no other field.
C25_FirstValueOfAFieldWins ==
    [][ (/\ AxisFamilyCall
         /\ HasValue(eventFrame)
         /\ ValueOf(eventFrame).info.kind = "Axes")
          => LET before == ValueOf(eventFrame)
                 after == ValueOf(eventFrame')
             IN  /\ HasValue(eventFrame')
                 /\ IF HasValue(FieldOf(before, DecidingField))
                      THEN \A field \in AxesFrameFields :
                              FieldOf(after, field) = FieldOf(before, field)
                      ELSE \A field \in AxesFrameFields :
                              IF \E carried \in CarriedFields : carried[1] = field
                                THEN \E carried \in CarriedFields :
                                        /\ carried[1] = field
                                        /\ FieldOf(after, field) = Some(carried[2])
                                ELSE FieldOf(after, field) = FieldOf(before, field) ]_vars
\* the vertical axis has a magnitude, a stop timestamp and a step count, and
\* a second stop notification with another timestamp has left the first
C25_Witness ==
    /\ Called("onAxisStop")
    /\ Arg(3) = WL_POINTER_AXIS_VERTICAL_SCROLL
    /\ HasValue(eventFrame)
    /\ ValueOf(eventFrame).info.kind = "Axes"
    /\ HasValue(FieldOf(ValueOf(eventFrame), << WL_POINTER_AXIS_VERTICAL_SCROLL, "value" >>))
    /\ HasValue(FieldOf(ValueOf(eventFrame),
                        << WL_POINTER_AXIS_VERTICAL_SCROLL, "one120thFractionsOfWheelStep" >>))
    /\ FieldOf(ValueOf(eventFrame), << WL_POINTER_AXIS_VERTICAL_SCROLL, "stoppedTimestampMs" >>)
         # Some(Arg(2))
    /\ eventFrame = lastCall.pending

\* C26: the pointer position is absent whenever the pointer is not over the
\* main window's surface: it is absent before the first Enter frame for that
\* surface is interpreted and, once absent, stays absent through every frame
\* (Motion, Button, Axes, Enter and Leave for other surfaces) until the next
\* Enter frame for that surface is interpreted.
C26_AbsentUntilNextEnter ==
    /\ ~HasValue(positionOnMainWindowSurface)
    /\ [][ (/\ ~HasValue(positionOnMainWindowSurface)
             /\ ~(/\ Committing("Enter")
                  /\ handled'[1].surfaceEntered = MainSurface))
              => ~HasValue(positionOnMainWindowSurface') ]_vars

\* C27: when the seat reports that the pointer capability is gone while a
\* pointer device is bound, the device is released and the pointer state is
\* reset: the position is absent, no button is pressed and no frame is
\* pending.
C27_PointerLossReleasesAndResets ==
    [][ (/\ Calling("onCapabilities")
         /\ ~HasCapability(NextArg(1), WL_SEAT_CAPABILITY_POINTER)
         /\ wlDevice # NullPtr)
          => /\ wlDevice' = NullPtr
             /\ ~HasValue(positionOnMainWindowSurface')
             /\ buttonsPressedState' = {}
             /\ ~HasValue(eventFrame') ]_vars

\* C28: for every integer virtual coordinate the renderer's cell index is
\* the mathematical floor of the coordinate divided by 60 (\div rounds
\* towards minus infinity), so that every cell spans 60 coordinates.
C28_CellIndexIsFloor ==
    Called("srcCellColumn") => returned = Some(Arg(1) \div 60)

\* the bytes of the pixel (x, y) of the sub-buffer the surface shows
PixelBytes(x, y) ==
    LET first == SideBufferOffset(surfaceBuffer) + (y * width + x) * bytesPerPixel
    IN  [ byte \in 0 .. bytesPerPixel - 1 |-> surfaceSharedBuffer[first + byte] ]
\* n is an even integer, negative or not: % is the modulus, which is 0 or 1
\* for every integer
IsEven(n) == n % 2 = 0
RenderedCell(x, y) == SrcCell(RenderCaptures(lastRenderedState), x, y)

\* C29: every pixel the renderer has written is black (0x00 in its three
\* colour bytes) when the column and the row of its cell are both even or
\* both odd and light grey (0xC0 in the three) otherwise, for negative
\* indices as for the others, and its fourth byte is 0xFF.
C29_ColourByParityAndOpaque ==
    Called("LoopRender") =>
        \A x \in 0 .. width - 1, y \in 0 .. height - 1 :
            LET cell == RenderedCell(x, y)
                colour == IF IsEven(cell.column) = IsEven(cell.row) THEN 0 ELSE 192
            IN  PixelBytes(x, y) = [ byte \in 0 .. bytesPerPixel - 1 |->
                                       IF byte = 3 THEN 255 ELSE colour ]
\* a rendered image with a black pixel in a cell of negative column and row,
\* a grey pixel in a cell of negative row and a grey pixel in a cell of
\* negative column
C29_Witness ==
    /\ Called("LoopRender")
    /\ \E x \in 0 .. width - 1, y \in 0 .. height - 1 :
           /\ RenderedCell(x, y).column < 0 /\ RenderedCell(x, y).row < 0
           /\ PixelBytes(x, y)[0] = 0
    /\ \E x \in 0 .. width - 1, y \in 0 .. height - 1 :
           /\ RenderedCell(x, y).column >= 0 /\ RenderedCell(x, y).row < 0
           /\ PixelBytes(x, y)[0] = 192
    /\ \E x \in 0 .. width - 1, y \in 0 .. height - 1 :
           /\ RenderedCell(x, y).column < 0 /\ RenderedCell(x, y).row >= 0
           /\ PixelBytes(x, y)[0] = 192

\* C30: rendering is a function of the ContentState (and of the surface's
\* size) alone: any two renderings of equal ContentStates leave the same
\* pixels, whichever sub-buffer each was made to, whatever that sub-buffer
\* held before and whatever was rendered between the two.
C30_RenderingIsAFunctionOfContentState ==
    \A first \in renderedImages, second \in renderedImages :
        ContentStateEq(first.state, second.state) => first.pixels = second.pixels
\* the third rendering is of the ContentState the second one rendered, to the
\* other sub-buffer, which held the different pixels of the first rendering,
\* while the second was made to a sub-buffer never written before
C30_Witness ==
    \E first \in renderedImages, second \in renderedImages, third \in renderedImages :
        /\ first.number < second.number /\ second.number < third.number
        /\ ContentStateEq(second.state, third.state)
        /\ ~ContentStateEq(first.state, second.state)
        /\ second.pendingBufferIdx # third.pendingBufferIdx
        /\ third.before = first.pixels
        /\ first.pixels # third.pixels
        /\ second.before # third.before

\* the step is an acquisition of main() that fails: one of Steps 1 to 6, or
\* the registration of the frame callback in the loop
AcquisitionFailing ==
    \/ Calling("Acquire") /\ NextArg(2) # "acquired"
    \/ Calling("LoopRenderFails")

ReleaseRank(resource) ==
    CASE resource = "touchScreen.wlDevice" -> 1
      [] resource = "pointingDev.wlDevice" -> 2
      [] resource = "keyboard.wlDevice" -> 3
      [] resource = "xdgToplevel" -> 4
      [] resource \in { "xdgSurface", "surface" } -> 5
      [] resource \in { "surfaceWLSideBuffer1", "surfaceWLSideBuffer2" } -> 6
      [] resource = "surfaceBufferWLPool" -> 7
      [] resource = "surfaceSharedBuffer" -> 8
      [] resource = "inputDevicesManager" -> 9
      [] resource = "xdgShell" -> 10
      [] resource = "shmProvider" -> 11
      [] resource = "compositor" -> 12
      [] resource = "registry" -> 13
      [] resource = "connection" -> 14
\* << a, b >>: the resource a is made from the resource b
DependsOn ==
    { << "registry", "connection" >>,
      << "compositor", "registry" >>, << "shmProvider", "registry" >>,
      << "xdgShell", "registry" >>, << "inputDevicesManager", "registry" >>,
      << "surfaceBufferWLPool", "shmProvider" >>,
      << "surfaceBufferWLPool", "surfaceSharedBuffer" >>,
      << "surfaceWLSideBuffer1", "surfaceBufferWLPool" >>,
      << "surfaceWLSideBuffer2", "surfaceBufferWLPool" >>,
      << "surface", "compositor" >>,
      << "xdgSurface", "xdgShell" >>, << "xdgSurface", "surface" >>,
      << "xdgToplevel", "xdgSurface" >>,
      << "keyboard.wlDevice", "inputDevicesManager" >>,
      << "pointingDev.wlDevice", "inputDevicesManager" >>,
      << "touchScreen.wlDevice", "inputDevicesManager" >> }
AllResources == { pair[1] : pair \in DependsOn } \cup { "connection" }
ReleasesOf(resource, releases) ==
    { i \in DOMAIN releases : releases[i] = resource }
\* main() returns in the step: appCtx goes out of scope
ShuttingDown == pc # "done" /\ pc' = "done"

\* C32: at shutdown the held resources are released in the order touch,
\* pointer, keyboard, toplevel, surface, sub-buffers, pool, shared memory,
\* seat, shell, shm, compositor, registry, connection: no resource is
\* released before one that depends on it, the connection is released last,
\* and the deleter of each held resource runs exactly once (and that of no
\* other resource runs).
C32_ReleaseOrderAtShutdown ==
    [][ ShuttingDown =>
          LET holding == held \cup (IF wlDevice # NullPtr
                                      THEN {"pointingDev.wlDevice"} ELSE {})
          IN  /\ released = <<>>
              /\ \A resource \in AllResources :
                    Cardinality(ReleasesOf(resource, released')) =
                        IF resource \in holding THEN 1 ELSE 0
              /\ \A i \in DOMAIN released', j \in DOMAIN released' :
                    i < j => ReleaseRank(released'[i]) <= ReleaseRank(released'[j])
              /\ \A pair \in DependsOn :
                    \A i \in ReleasesOf(pair[1], released'),
                       j \in ReleasesOf(pair[2], released') : i < j
              /\ holding # {} => released'[Len(released')] = "connection" ]_vars
\* main() has returned from the loop with the keyboard and the pointer bound:
\* fifteen resources are released
C32_Witness ==
    /\ Called("LoopExit")
    /\ pc = "done"
    /\ Len(released) = 15
    /\ \E i \in DOMAIN released, j \in DOMAIN released :
          /\ released[i] = "pointingDev.wlDevice"
          /\ released[j] = "keyboard.wlDevice"
          /\ i < j

\* C33: from the start of the loop on, in every state between two steps of
\* the loop and the handlers, readyToBeRedrawn is true exactly when no frame
\* callback is outstanding, that is when pendingCallback is null.
C33_GateAgreesWithRegistration ==
    pc \in { "loop", "dispatch" }
      => (readyToBeRedrawn <=> pendingCallback = NullPtr)
\* the done of the second callback has opened the gate again and cleared the
\* registration
C33_Witness ==
    /\ Called("onSurfaceFrame")
    /\ Arg(1) = 2
    /\ callbacksCreated = 2
    /\ readyToBeRedrawn
    /\ pendingCallback = NullPtr
    /\ pc = "dispatch"

\* the loop has just called wl_display_dispatch, which blocks until events
\* arrive
BlockedInDispatch ==
    /\ pc = "dispatch"
    /\ (Called("LoopRender") \/ Called("LoopSkip"))

\* C34: whenever the loop blocks in the dispatch, the gate is not open with
\* work left to render: it is never the case there that readyToBeRedrawn is
\* true while a redraw is asked for or the content differs from the last
\* rendered one.
C34_NeverIdleWithUnrenderedWork ==
    BlockedInDispatch
      => ~(/\ readyToBeRedrawn
           /\ (mustBeRedrawn \/ ~ContentStateEq(contentState, lastRenderedState)))
\* the loop blocks with a pan not yet rendered, the gate being closed
C34_Witness ==
    /\ BlockedInDispatch
    /\ Called("LoopSkip")
    /\ mustBeRedrawn
    /\ ~ContentStateEq(contentState, lastRenderedState)
    /\ ~readyToBeRedrawn

\* a redraw is asked for or the content differs from the last rendered one
UnrenderedWork ==
    mustBeRedrawn \/ ~ContentStateEq(contentState, lastRenderedState)

RequestPlaces(rs, request) == { i \in DOMAIN rs : rs[i].request = request }

\* C36: in each submission the frame callback is requested on the surface,
\* and the gate is closed, before the surface is committed and before a pixel
\* is drawn, so the callback belongs to the commit of its own submission, and
\* one callback is requested per commit: a step that commits has requested
\* exactly one callback, before the rendering and the commit, has registered
\* it as the outstanding one and leaves the gate closed; a step whose request
\* fails has closed the gate and has drawn and committed nothing.
C36_FrameCallbackBeforeCommit ==
    [][ LET rs == requests'
            frames == RequestPlaces(rs, "wl_surface_frame")
            commits == RequestPlaces(rs, "wl_surface_commit")
            renders == RequestPlaces(rs, "renderMainWindow")
        IN  /\ Cardinality(commits) <= 1
            /\ commits # {} <=> Calling("LoopRender")
            /\ commits # {}
                 => /\ Cardinality(frames) = 1
                    /\ \A frame \in frames :
                          /\ \A commit \in commits : frame < commit
                          /\ \A render \in renders : frame < render
                    /\ ~readyToBeRedrawn'
                    /\ pendingCallback' = callbacksCreated'
                    /\ callbacksCreated' = callbacksCreated + 1
                    /\ registered' = registered \cup {pendingCallback'}
            /\ (frames # {} /\ commits = {})
                 => /\ Calling("LoopRenderFails")
                    /\ ~readyToBeRedrawn'
                    /\ renders = {}
                    /\ written' = {}
                    /\ pc' = "done" ]_vars
\* the second submission has been committed with the second callback
\* outstanding
C36_Witness ==
    /\ Called("LoopRender")
    /\ callbacksCreated = 2
    /\ pendingCallback = 2
    /\ registered = {2}
    /\ ~readyToBeRedrawn
    /\ RequestPlaces(requests, "wl_surface_frame") = {1}
    /\ RequestPlaces(requests, "wl_surface_commit") = {6}

\* the operations of the axis family, which all go through
\* getAxesFramePtrOrNull
AxisFamily == AxisFamilyEvents

\* the next step is an axis sub-event written into the frame that is pending
MergingIntoPendingFrame ==
    /\ lastCall'.op \in AxisFamily
    /\ HasValue(eventFrame)
    /\ HasValue(eventFrame')
    /\ eventFrame' # eventFrame

BindingPointer == RequestPlaces(requests', "wl_seat_get_pointer") # {}

\* C38: a pointer device is bound only by a capabilities event that reports a
\* pointer while none is bound; a capabilities event that reports a pointer
\* while one is bound neither rebinds nor replaces it; so at most one
\* wl_pointer is obtained per binding and the listener is added to it once.
C38_PointerBoundOnceWhileUnbound ==
    [][ /\ (wlDevice' # wlDevice /\ wlDevice' # NullPtr) => BindingPointer
        /\ BindingPointer
             => /\ Calling("onCapabilities")
                /\ WL_SEAT_CAPABILITY_POINTER \in NextArg(1)
                /\ wlDevice = NullPtr
                /\ wlDevice' = SeatPointer
                /\ Cardinality(RequestPlaces(requests', "wl_seat_get_pointer")) = 1
        /\ Cardinality(RequestPlaces(requests', "wl_pointer_add_listener"))
             = Cardinality(RequestPlaces(requests', "wl_seat_get_pointer"))
        /\ (Calling("onCapabilities") /\ wlDevice # NullPtr)
             => (~BindingPointer /\ wlDevice' = wlDevice) ]_vars
\* a capabilities event reporting the pointer has arrived while the pointer
\* was bound, and has obtained no wl_pointer
C38_Witness ==
    /\ Called("onCapabilities")
    /\ WL_SEAT_CAPABILITY_POINTER \in Arg(1)
    /\ wlDevice = SeatPointer
    /\ RequestPlaces(requests, "wl_seat_get_pointer") = {}

\* C39: in every reachable state the zoom is 1 and the zoom centre is the
\* initial one: whatever pointer, keyboard, seat and window events arrive,
\* only the pan offset of the content state changes.
C39_ZoomAndCentreNeverChange ==
    /\ contentState.viewportZoom = DefaultContentState.viewportZoom
    /\ contentState.viewportZoom = Pixels(1)
    /\ contentState.viewportZoomCenterLocalX = DefaultContentState.viewportZoomCenterLocalX
    /\ contentState.viewportZoomCenterLocalY = DefaultContentState.viewportZoomCenterLocalY
\* a key event has arrived after the content was panned
C39_Witness ==
    /\ Called("onKey")
    /\ contentState.viewportOffsetX # DefaultContentState.viewportOffsetX

\* v is the mathematical product k * n (stated by division, so that no
\* product is formed)
IsProductOf(v, k, n) == v % k = 0 /\ v \div k = n

\* C40: for every int32 step count n the value an axis_discrete event stores
\* is the mathematical product 120 * n: the multiplication by 120 neither
\* wraps around nor changes sign.
C40_DiscreteStoresTheExactProduct ==
    [][ (Calling("onAxisDiscrete") /\ eventFrame' # eventFrame)
          => LET axis == AxisToHandle(ValueOf(eventFrame').info, NextArg(2))
             IN  /\ HasValue(axis)
                 /\ HasValue(ValueOf(axis).one120thFractionsOfWheelStep)
                 /\ IsProductOf(ValueOf(ValueOf(axis).one120thFractionsOfWheelStep),
                                WheelStepFractions, NextArg(3)) ]_vars

=============================================================================
